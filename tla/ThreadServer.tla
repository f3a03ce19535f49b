---------------------------- MODULE ThreadServer ----------------------------
(***************************************************************************)
(* The thread server (threadserver/server.js, threadcode.js): the code of  *)
(* a user runs in one of a pool of threads, either as a script that        *)
(* answers a request, or as a map over the containers of one.  Messages    *)
(* between server and thread keep their order.  Code may send requests of  *)
(* its own, which the server passes to the supply chain.                   *)
(*                                                                         *)
(* A map knows that it is over by counting calls of done(): a function of  *)
(* one argument is done when it returns, one of two arguments calls done   *)
(* itself, now or when a response has come, or never, or once too often.   *)
(* A script is over when it sends its response.                            *)
(***************************************************************************)
EXTENDS Naturals, FiniteSets, SequencesExt

CONSTANTS Jobs, Threads,
          Sizes,        \* of how many containers a job may be
          MaxRequests   \* bound: requests the code of a job sends

ASSUME ThreadAssumption == Sizes \subseteq Nat /\ MaxRequests \in Nat

\* A map runs a function of one argument, or of two.
Methods == {"script", "map1", "map2"}

VARIABLES
    method,     \* job -> what it runs
    total,      \* job -> how many containers it maps; a script has its request
    callbacks,  \* the jobs whose caller waits
    thread,     \* job -> the threads it was given to: none yet, or one
    toThread, toServer,  \* thread -> messages on the way
    shipped,    \* requests with the supply chain: <<job, container, number>>
    turn,       \* thread -> the calls of code left of its turn
    waiting,    \* thread -> requests that have a callback in it
    completed,  \* job -> calls of done()
    results,    \* job -> containers, by their place in its input, of which a
                \* result was emitted
    requests,   \* job -> requests sent
    answers,    \* job -> what its caller was called with (history)
    broken,     \* jobs of which code threw, or never called done, or whose
                \* request was lost (history)
    careless    \* jobs of which code called done twice for one container, or
                \* went on after it (history)

server == <<callbacks, thread, answers>>
links == <<toThread, toServer>>
counts == <<completed, results, requests>>
inside == <<turn, waiting, counts, careless>>
job == <<method, total>>
vars == <<job, server, links, shipped, inside, broken>>

Send(link, t, msgs) == [link EXCEPT ![t] = @ \o msgs]

-----------------------------------------------------------------------------
(* The server *)

\* run: any thread is picked, however busy.
Run(j) ==
    /\ thread[j] = {}
    /\ callbacks' = callbacks \cup {j}
    /\ \E t \in Threads :
          /\ thread' = [thread EXCEPT ![j] = {t}]
          /\ toThread' = Send(toThread, t, <<[is |-> "job", of |-> j]>>)
    /\ UNCHANGED <<job, answers, toServer, shipped, inside, broken>>

\* Variant: the callback is kept.
CalledAndKept(j) == callbacks

Called(j) == callbacks \ {j}

\* thread.on('result'): the first one calls back.
Result(t) ==
    /\ toServer[t] # <<>>
    /\ LET msg == Head(toServer[t]) IN
       /\ msg.is = "result"
       /\ answers' = IF msg.of \in callbacks
                     THEN [answers EXCEPT ![msg.of] = Append(@, msg.body)]
                     ELSE answers
       /\ callbacks' = Called(msg.of)
    /\ toServer' = [toServer EXCEPT ![t] = Tail(@)]
    /\ UNCHANGED <<job, thread, toThread, shipped, inside, broken>>

\* thread.on('request'): on to the supply chain.
Request(t) ==
    /\ toServer[t] # <<>>
    /\ Head(toServer[t]).is = "request"
    /\ shipped' = shipped \cup {Head(toServer[t]).of}
    /\ toServer' = [toServer EXCEPT ![t] = Tail(@)]
    /\ UNCHANGED <<job, server, toThread, inside, broken>>

\* The supply chain answers, and so does the server.
Respond(r) ==
    /\ r \in shipped
    /\ shipped' = shipped \ {r}
    /\ \E t \in thread[r[1]] :
          toThread' = Send(toThread, t, <<[is |-> "response", of |-> r]>>)
    /\ UNCHANGED <<job, server, toServer, inside, broken>>

\* The supply chain has no timeout: what is lost is never answered.
LoseRequest(r) ==
    /\ r \in shipped
    /\ shipped' = shipped \ {r}
    /\ broken' = broken \cup {r[1]}
    /\ UNCHANGED <<job, server, links, inside>>

-----------------------------------------------------------------------------
(* A thread *)

\* A message begins a turn.  Code is called for each container in turn, or goes
\* on where it had sent a request.
Take(t) ==
    /\ turn[t] = <<>> /\ toThread[t] # <<>>
    /\ LET msg == Head(toThread[t]) IN
       turn' = [turn EXCEPT ![t] =
           CASE msg.is = "job" ->
                   [k \in 1..total[msg.of] |-> <<msg.of, k, 0>>]
             [] msg.is = "response" /\ msg.of \in waiting[t] -> <<msg.of>>
             [] OTHER -> <<>>]
    /\ toThread' = [toThread EXCEPT ![t] = Tail(@)]
    /\ UNCHANGED <<job, server, toServer, shipped, waiting, counts, careless,
                   broken>>

\* What a job whose code does not compile has for a result.
Error == {0}

\* The code of a job does not compile: that is its result.
Refuse(t) ==
    /\ turn[t] = <<>> /\ toThread[t] # <<>>
    /\ Head(toThread[t]).is = "job"
    /\ toServer' = Send(toServer, t,
           <<[is |-> "result", of |-> Head(toThread[t]).of, body |-> Error]>>)
    /\ toThread' = [toThread EXCEPT ![t] = Tail(@)]
    /\ UNCHANGED <<job, server, shipped, inside, broken>>

\* Variant: a call of done too many is.
MoreThanEnough(j, n) == n > total[j]

\* mapper.done: completed >= total.
Enough(j, n) == n >= total[j]

\* Code emits a result and calls done, n times.  A call too many sends the
\* results once more.  A callback is forgotten when it returns.
Done(t, n) ==
    /\ turn[t] # <<>>
    /\ LET call == Head(turn[t])
           j == call[1]
           all == results[j] \cup {call[2]}
           result == [is |-> "result", of |-> j, body |-> all]
           enough == {k \in 1..n : Enough(j, completed[j] + k)}
       IN  /\ n > 1 => method[j] # "map1"
           /\ results' = [results EXCEPT ![j] = all]
           /\ completed' = [completed EXCEPT ![j] = @ + n]
           /\ toServer' = Send(toServer, t, [k \in 1..Cardinality(enough) |-> result])
           /\ waiting' = [waiting EXCEPT ![t] = @ \ {call}]
           /\ careless' = IF n > 1 THEN careless \cup {j} ELSE careless
    /\ turn' = [turn EXCEPT ![t] = Tail(@)]
    /\ UNCHANGED <<job, server, toThread, shipped, requests, broken>>

\* Code sends a request and goes on when it is answered.
Ship(t) ==
    /\ turn[t] # <<>>
    /\ LET call == Head(turn[t])
           j == call[1]
           r == <<j, call[2], requests[j] + 1>>
       IN  /\ method[j] # "map1"
           /\ requests[j] < MaxRequests
           /\ requests' = [requests EXCEPT ![j] = @ + 1]
           /\ toServer' = Send(toServer, t, <<[is |-> "request", of |-> r]>>)
           /\ waiting' = [waiting EXCEPT ![t] = (@ \cup {r}) \ {call}]
    /\ turn' = [turn EXCEPT ![t] = Tail(@)]
    /\ UNCHANGED <<job, server, toThread, shipped, completed, results,
                   careless, broken>>

\* Code throws, and the turn ends, with the containers not yet called for: the
\* error is logged.  A callback that throws is not forgotten.
Throw(t) ==
    /\ turn[t] # <<>>
    /\ turn' = [turn EXCEPT ![t] = <<>>]
    /\ broken' = broken \cup {Head(turn[t])[1]}
    /\ UNCHANGED <<job, server, links, shipped, waiting, counts, careless>>

\* Code returns and does nothing any more.
Idle(t) ==
    /\ turn[t] # <<>>
    /\ LET call == Head(turn[t]) IN
       /\ method[call[1]] # "map1"
       /\ waiting' = [waiting EXCEPT ![t] = @ \ {call}]
       /\ broken' = broken \cup {call[1]}
    /\ turn' = [turn EXCEPT ![t] = Tail(@)]
    /\ UNCHANGED <<job, server, links, shipped, counts, careless>>

-----------------------------------------------------------------------------
Init ==
    /\ method \in [Jobs -> Methods]
    /\ total \in [Jobs -> Sizes]
    /\ \A j \in Jobs : method[j] = "script" => total[j] = 1
    /\ callbacks = {}
    /\ thread = [j \in Jobs |-> {}]
    /\ toThread = [t \in Threads |-> <<>>] /\ toServer = toThread
    /\ turn = toThread
    /\ shipped = {}
    /\ waiting = [t \in Threads |-> {}]
    /\ completed = [j \in Jobs |-> 0] /\ requests = completed
    /\ results = [j \in Jobs |-> {}]
    /\ answers = [j \in Jobs |-> <<>>]
    /\ broken = {} /\ careless = {}

Works(t) ==
    \/ Take(t) \/ Refuse(t)
    \/ Done(t, 1) \/ Done(t, 2) \/ Ship(t) \/ Throw(t) \/ Idle(t)

Serves == \E t \in Threads : Result(t) \/ Request(t)

Next ==
    \/ \E j \in Jobs : Run(j)
    \/ Serves
    \/ \E r \in shipped : Respond(r) \/ LoseRequest(r)
    \/ \E t \in Threads : Works(t)

\* Threads and the event loop run; the supply chain answers what it does not
\* lose.
Fairness ==
    /\ WF_vars(Serves \/ \E r \in shipped : Respond(r) \/ LoseRequest(r))
    /\ \A t \in Threads : WF_vars(Works(t))

Spec == Init /\ [][Next]_vars /\ Fairness

-----------------------------------------------------------------------------
(* Properties *)

\* The caller of a job is called once, and the caller of a map with a result of
\* every container, whatever else its thread runs and in whichever order the
\* requests of its code are answered; code that calls done twice may end a map
\* early, but not call its caller twice (server.js:130-141,
\* threadcode.js:163-178).
OneWholeAnswer ==
    \A j \in Jobs :
        /\ Len(answers[j]) <= 1
        /\ j \notin careless => \A k \in DOMAIN answers[j] :
              answers[j][k] \in {Error, 1..total[j]}

\* A job is answered, unless its own code threw or never called done, a request
\* of its own was lost, or there was nothing to map: what the others on its
\* thread do is no excuse.
AnsweredUnlessBroken ==
    \A j \in Jobs :
        thread[j] # {} ~> answers[j] # <<>> \/ j \in broken \/ total[j] = 0
=============================================================================
