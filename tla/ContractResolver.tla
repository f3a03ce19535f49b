-------------------------- MODULE ContractResolver --------------------------
(***************************************************************************)
(* The contract resolver (warehouse/resolvecontract.js): a contract is a   *)
(* request whose body is a list of requests, some of them contracts in     *)
(* turn.  A merge runs its parts in parallel and adds up their responses,  *)
(* a pipe runs them one after the other, each with the body the previous   *)
(* one answered.  It is used in two places: by the hq server in front of   *)
(* its own warehouse, and by the contract worker in front of the holding   *)
(* bay (bay), which answers every plain request with status 200 and the    *)
(* list of results it collected.                                           *)
(*                                                                         *)
(* One node process runs all of it: an action is what runs between two     *)
(* turns of the event loop.  A response's 'send' event is emitted          *)
(* synchronously, and a merge that gets its last part sends in turn:       *)
(* `sending` is the response whose listener runs next, before anything     *)
(* else.                                                                   *)
(***************************************************************************)
EXTENDS Naturals, Sequences, FiniteSets, SequencesExt

CONSTANTS Contracts,  \* the contracts of one request, however nested
          Leaves,     \* its plain requests
          Root,       \* the contract the client shipped
          Shapes,     \* the trees they may form: type and parts of a contract,
                      \* and whether plain requests go through the holding bay
          NoBody,     \* the body of a response nobody gave one: null
          NoNode

Nodes == Contracts \cup Leaves
Types == {"merge", "pipe", "other"}

ASSUME ConstantsAssumption ==
    /\ Contracts \cap Leaves = {}
    /\ Root \in Contracts
    /\ NoNode \notin Nodes
    /\ \A s \in Shapes : /\ s.bay \in BOOLEAN
                        /\ s.type \in [Contracts -> Types]
                        /\ s.parts \in [Contracts -> Seq(Nodes)]

\* A request is in one contract, in one place, and what came over the wire is a
\* tree: in any set of requests there is one that is not in another of the set.
ASSUME TreeAssumption ==
    \A s \in Shapes :
        /\ \A c, d \in Contracts : \A j \in DOMAIN s.parts[c], k \in DOMAIN s.parts[d] :
               s.parts[c][j] = s.parts[d][k] => c = d /\ j = k
        /\ \A c \in Contracts : Root \notin Range(s.parts[c])
        /\ \A some \in (SUBSET Nodes) \ {{}} :
               \E n \in some : \A c \in some \cap Contracts : n \notin Range(s.parts[c])

\* Contract.map (contract/proto.js L268-287) is what makes pipes: a contract,
\* if any, comes first.  A contract further on would have its parts replaced by
\* the results piped into it, and no caller builds one.
ASSUME PipesAssumption ==
    \A s \in Shapes : \A c \in Contracts :
        s.type[c] = "pipe" => \A k \in 2..Len(s.parts[c]) : s.parts[c][k] \in Leaves

\* What a body is made of: what a plain request found, the text of an error,
\* and the null that concat puts in for no body.
Hole == [of |-> NoNode, is |-> "null"]
Found(l) == [of |-> l, is |-> "result"]
Failure(n) == [of |-> n, is |-> "error"]
Entries == {Hole} \cup {Found(l) : l \in Leaves} \cup {Failure(n) : n \in Nodes}

\* null is not a list.
ASSUME NullAssumption == NoBody \notin Seq(Entries)

Response(status, body, errors) ==
    [statusCode |-> status, body |-> body, errors |-> errors]

Fresh == Response(200, NoBody, <<>>)

VARIABLES
    shape,    \* the tree of this request
    phase,    \* node -> how far its request is
    input,    \* node -> the body a pipe gave its request, or NoBody
    response, \* node -> its response
    sends,    \* node -> how often its response was sent (history)
    arrived,  \* merge -> how many parts have answered; pipe -> which part runs
    sending   \* the response being sent, or NoNode

vars == <<shape, phase, input, response, sends, arrived, sending>>

Phases == {"idle",     \* not reached
           "queued",   \* to be handed to the resolver or the supply chain
           "accepted", \* a contract whose resolver runs in the next tick
           "running",
           "sent",     \* its response was sent
           "settling"} \* the next tick of the pipe above looks at it

Parts(c) == shape.parts[c]
Type(c) == shape.type[c]

IsPart(n, c) == \E k \in DOMAIN Parts(c) : Parts(c)[k] = n

\* The contract a request is a part of.
Above(n) == CHOOSE c \in Contracts : IsPart(n, c)

Init ==
    /\ shape \in Shapes
    /\ phase = [n \in Nodes |-> IF n = Root THEN "queued" ELSE "idle"]
    /\ input = [n \in Nodes |-> NoBody]
    /\ response = [n \in Nodes |-> Fresh]
    /\ sends = [n \in Nodes |-> 0]
    /\ arrived = [c \in Contracts |-> 0]
    /\ sending = NoNode

-----------------------------------------------------------------------------
(* Responses: contract/response.js. *)

HasError(res) == res.statusCode >= 400 \/ res.errors # <<>>

\* What concat appends for a body: its members, or null itself.
Members(body) == IF body = NoBody THEN <<Hole>> ELSE body

IsEmpty(body) == body = NoBody \/ body = <<>>

\* Variant: the status of an errored part is not taken over, nor is its text.
AddForgetsErrors(res, part) ==
    LET body == IF res.body = NoBody THEN <<>> ELSE res.body
    IN  IF HasError(part) THEN Response(res.statusCode, body, res.errors)
        ELSE Response(res.statusCode, body \o Members(part.body), res.errors)

\* mainres.add(res).
Add(res, part) ==
    LET body == IF res.body = NoBody THEN <<>> ELSE res.body
    IN  IF HasError(part)
        THEN Response(part.statusCode, body, Append(res.errors, part.body))
        ELSE Response(res.statusCode, body \o Members(part.body), res.errors)

SendAs(n, res) ==
    /\ response' = [response EXCEPT ![n] = res]
    /\ phase' = [phase EXCEPT ![n] = "sent"]
    /\ sends' = [sends EXCEPT ![n] = @ + 1]
    /\ sending' = n

-----------------------------------------------------------------------------
(* The supply chain, answering a plain request.                              *)

\* What the resolver hears of an answer.  In situ it is the supplier's own
\* response; the bay concatenates the bodies it got and sends them with
\* status 200, whatever the status they came with.
Heard(l, outcome) ==
    LET status == IF shape.bay \/ outcome # "error" THEN 200 ELSE 500
        body == CASE outcome = "found" -> <<Found(l)>>
                  [] outcome = "empty" -> <<>>
                  [] outcome = "error" -> <<Failure(l)>>
                  [] outcome = "null" -> IF shape.bay THEN <<>> ELSE NoBody
    IN  Response(status, body, <<>>)

Outcomes == {"found", "empty", "error", "null"}

Ask(l) ==
    /\ sending = NoNode
    /\ phase[l] = "queued"
    /\ phase' = [phase EXCEPT ![l] = "running"]
    /\ UNCHANGED <<shape, input, response, sends, arrived, sending>>

Reply(l, outcome) ==
    /\ sending = NoNode
    /\ phase[l] = "running"
    /\ SendAs(l, Heard(l, outcome))
    /\ UNCHANGED <<shape, input, arrived>>

-----------------------------------------------------------------------------
(* The resolver: warehouse/resolvecontract.js. *)

\* handle(): no resolver for the type ends in send404, a contract without
\* parts is answered as it is.
Handle(c) ==
    /\ sending = NoNode
    /\ phase[c] = "queued"
    /\ \/ /\ Type(c) = "other"
          /\ SendAs(c, Response(404, <<Failure(c)>>, <<>>))
       \/ /\ Type(c) # "other"
          /\ Parts(c) = <<>>
          /\ SendAs(c, response[c])
       \/ /\ Type(c) # "other"
          /\ Parts(c) # <<>>
          /\ phase' = [phase EXCEPT ![c] = "accepted"]
          /\ UNCHANGED <<response, sends, sending>>
    /\ UNCHANGED <<shape, input, arrived>>

StartMerge(c) ==
    /\ sending = NoNode
    /\ phase[c] = "accepted"
    /\ Type(c) = "merge"
    /\ phase' = [n \in Nodes |-> IF n = c THEN "running"
                                 ELSE IF IsPart(n, c) THEN "queued"
                                 ELSE phase[n]]
    /\ UNCHANGED <<shape, input, response, sends, arrived, sending>>

\* Variant: the part before the last is taken for the last.
IsLastButOne(c) == arrived[c] + 2 >= Len(Parts(c))

\* Variant: the last part is not recognised.
IsAfterLast(c) == arrived[c] >= Len(Parts(c))

\* async.forEach's count of the parts that are done.
IsLast(c) == arrived[c] + 1 >= Len(Parts(c))

\* A part of a merge has sent its response: add it, and send when it was the
\* last one.
MergePart(n) ==
    /\ sending = n
    /\ n # Root
    /\ LET c == Above(n)
           sum == Add(response[c], response[n])
       IN  /\ Type(c) = "merge"
           /\ arrived' = [arrived EXCEPT ![c] = @ + 1]
           /\ \/ /\ ~ IsLast(c)
                 /\ response' = [response EXCEPT ![c] = sum]
                 /\ sending' = NoNode
                 /\ UNCHANGED <<phase, sends>>
              \/ /\ IsLast(c)
                 /\ SendAs(c, sum)
    /\ UNCHANGED <<shape, input>>

StartPipe(c) ==
    /\ sending = NoNode
    /\ phase[c] = "accepted"
    /\ Type(c) = "pipe"
    /\ arrived' = [arrived EXCEPT ![c] = 1]
    /\ phase' = [phase EXCEPT ![c] = "running", ![Parts(c)[1]] = "queued"]
    /\ UNCHANGED <<shape, input, response, sends, sending>>

\* A part of a pipe has sent its response, which is left to the next tick.
PipeHears(n) ==
    /\ sending = n
    /\ n # Root
    /\ Type(Above(n)) = "pipe"
    /\ sending' = NoNode
    /\ phase' = [phase EXCEPT ![n] = "settling"]
    /\ UNCHANGED <<shape, input, response, sends, arrived>>

\* Variant: the error of a part is not looked at.
BailsOutNever(res) == FALSE

\* "when we are piping we bail out at the first error".
BailsOut(res) == HasError(res)

\* The next tick: an error is sent on as the pipe's own and an empty result
\* ends it; otherwise the next part runs on the result, or there is none and
\* the result is the pipe's.
PipeStep(n) ==
    /\ sending = NoNode
    /\ phase[n] = "settling"
    /\ LET c == Above(n)
           k == arrived[c]
           last == response[n]
           settled == [phase EXCEPT ![n] = "sent"]
           Finish(res) ==
               /\ response' = [response EXCEPT ![c] = res]
               /\ phase' = [settled EXCEPT ![c] = "sent"]
               /\ sends' = [sends EXCEPT ![c] = @ + 1]
               /\ sending' = c
               /\ UNCHANGED <<input, arrived>>
       IN  \/ /\ BailsOut(last)
              /\ Finish(Response(500, last.body, response[c].errors))
           \/ /\ ~ BailsOut(last)
              /\ IsEmpty(last.body)
              /\ Finish(response[c])
           \/ /\ ~ BailsOut(last) /\ ~ IsEmpty(last.body)
              /\ k = Len(Parts(c))
              /\ Finish(Response(response[c].statusCode, last.body, response[c].errors))
           \/ /\ ~ BailsOut(last) /\ ~ IsEmpty(last.body)
              /\ k < Len(Parts(c))
              /\ arrived' = [arrived EXCEPT ![c] = k + 1]
              /\ input' = [input EXCEPT ![Parts(c)[k + 1]] = last.body]
              /\ phase' = [settled EXCEPT ![Parts(c)[k + 1]] = "queued"]
              /\ UNCHANGED <<response, sends, sending>>
    /\ UNCHANGED shape

\* The client's own listener.
Deliver ==
    /\ sending = Root
    /\ sending' = NoNode
    /\ UNCHANGED <<shape, phase, input, response, sends, arrived>>

Next ==
    \/ \E l \in Leaves : Ask(l) \/ \E o \in Outcomes : Reply(l, o)
    \/ \E c \in Contracts : Handle(c) \/ StartMerge(c) \/ StartPipe(c)
    \/ \E n \in Nodes : MergePart(n) \/ PipeHears(n) \/ PipeStep(n)
    \/ Deliver

Spec == Init /\ [][Next]_vars

\* The event loop runs what is queued and the supply chain answers.
FairSpec == Spec /\ WF_vars(Next)

-----------------------------------------------------------------------------
Bodies == Seq(Entries) \cup {NoBody}

\* The variables keep their types.
TypeOK ==
    /\ shape \in Shapes
    /\ phase \in [Nodes -> Phases]
    /\ input \in [Nodes -> Bodies]
    /\ response \in [Nodes -> [statusCode : {200, 404, 500}, body : Bodies,
                               errors : Seq(Bodies)]]
    /\ sends \in [Nodes -> Nat]
    /\ arrived \in [Contracts -> Nat]
    /\ sending \in Nodes \cup {NoNode}

\* A response that was sent is not touched and not sent again: a second send
\* would set headers that were sent (message.js L66-68 throws) or add to a merge
\* that is complete.
SentIsFinal ==
    [][\A n \in Nodes : sends[n] > 0 =>
           response'[n] = response[n] /\ sends'[n] = sends[n]]_vars

(* What a contract comes to, from what its parts came to.                    *)

\* The parts of a merge that answered with an error, and the others.
Errored(c) == {k \in DOMAIN Parts(c) : HasError(response[Parts(c)[k]])}
Succeeded(c) == DOMAIN Parts(c) \ Errored(c)

\* "run each contract request in parallel and merge the results into a single
\* response" (resolvecontract.js L85-86): the response waits for all parts; it
\* holds the body of each that has no error, one after the other, and has the
\* body of each that has one among its errors, once each and in whatever order
\* they answered; and it is an error if one of them is.
MergeIsSum ==
    /\ TypeOK
    /\ \A c \in Contracts :
        sends[c] > 0 /\ Type(c) = "merge" /\ Parts(c) # <<>> =>
            /\ \A k \in DOMAIN Parts(c) : sends[Parts(c)[k]] = 1
            /\ \E order \in SetToSeqs(Succeeded(c)) :
                  response[c].body =
                    FlattenSeq([i \in DOMAIN order |-> Members(response[Parts(c)[order[i]]].body)])
            /\ \E order \in SetToSeqs(Errored(c)) :
                  response[c].errors = [i \in DOMAIN order |-> response[Parts(c)[order[i]]].body]
            /\ HasError(response[c]) <=> Errored(c) # {}

\* A part of a pipe runs only after the one before has answered without an
\* error and with results, and it runs on exactly these.
RunsOnTheLast(c) ==
    \A k \in 2..Len(Parts(c)) :
        LET this == Parts(c)[k]  before == response[Parts(c)[k - 1]]
        IN  phase[this] # "idle" =>
                /\ sends[Parts(c)[k - 1]] = 1
                /\ ~ HasError(before) /\ ~ IsEmpty(before.body)
                /\ input[this] = before.body

\* What a pipe answers is what the part that ran last answered: its error, as
\* the pipe's own; nothing, if it found nothing; its results, if no part is
\* left.
AnswersTheLast(c) ==
    sends[c] > 0 /\ Parts(c) # <<>> =>
        LET last == response[Parts(c)[arrived[c]]]
        IN  /\ HasError(response[c]) <=> HasError(last)
            /\ IF ~ HasError(last) /\ IsEmpty(last.body)
               THEN response[c].body = NoBody
               ELSE response[c].body = last.body
            /\ HasError(last) \/ IsEmpty(last.body)
                 \/ arrived[c] = Len(Parts(c))

\* A pipe hands results on from part to part in their order, stops at the first
\* part that fails or finds nothing, and answers what that one, or the last one,
\* answered (resolvecontract.js L164-209).
PipeInOrder ==
    \A c \in Contracts :
        Type(c) = "pipe" => RunsOnTheLast(c) /\ AnswersTheLast(c)

\* In front of a warehouse, where the resolver hears the supplier's own
\* response, the client's response is an error as soon as one request of the
\* tree was answered with one, however deep it is.
ErrorsReachClient ==
    ~ shape.bay /\ sends[Root] = 1
        /\ (\E n \in Nodes : sends[n] = 1 /\ HasError(response[n]))
            => HasError(response[Root])

\* The client that shipped the contract gets its response.
Answered == <>(sends[Root] = 1)

(* What the code says of itself.                                             *)

\* "when we are piping we bail out at the first error" (resolvecontract.js
\* L170): a part of a pipe does not run on the error of the part before.
PipeBailsOut ==
    \A c \in Contracts, k \in 2..3 :
        Type(c) = "pipe" /\ k <= Len(Parts(c)) /\ phase[Parts(c)[k]] # "idle" =>
            LET before == Parts(c)[k - 1]
            IN  Failure(before) \notin Range(response[before].body)
=============================================================================
