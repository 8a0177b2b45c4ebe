----------------------------- MODULE LlmGateway -----------------------------
(***************************************************************************)
(* The gateway through which text models are asked, and what its callers   *)
(* make of an answer: services/llm_gateway_service.py with                 *)
(* modules/operations/_llm_routing.py, for the assistant of a voice turn,  *)
(* the authoring of push copies and the analyzer of the optimization lab.  *)
(* A request walks the chain of providers that its policy allows, asks     *)
(* each of them a bounded number of times, and waits for a reply no longer *)
(* than its timeout.  The calls run in one pool of threads that all        *)
(* requests share, and a call nobody waits for any more keeps its place in *)
(* the queue and then its thread: nothing cancels it.                      *)
(***************************************************************************)
EXTENDS Naturals, Sequences, FiniteSets

CONSTANTS
  Requests,     \* threads that ask, each of them once
  Callers,      \* some of "voice", "copy" and "lab"
  PoolThreads,  \* max_workers
  MaxRetries    \* max_retries of a request: 1 unless it says so, and each caller says 0

ASSUME LlmGatewayAssumption ==
  MaxRetries \in Nat /\ Callers \subseteq {"voice", "copy", "lab"}

VARIABLES
  ask,       \* requests in generate, and their callers
  pending,   \* calls in the queue of the pool
  running    \* calls that hold a thread

gatewayVars == <<ask, pending, running>>

Providers == {"ollama", "cloud"}
Policies == {"local_first", "cloud_first", "local_only", "cloud_only"}

\* What an adapter makes of a reply: JSON that serves, JSON without the field
\* that the task requires, an error worth another try, one of them whose text
\* speaks of a timeout (the provider's own), and an error that is final.
Replies == {"good", "unusable", "transient", "late", "fatal"}

Calls == Requests \X Providers \X (1..(MaxRetries + 1))

\* given is the reply that became the answer, and call the one that gave it.
Answers == [finish : {"stop", "fallback", "schema_failure", "error", "timeout"},
            given : Replies \cup {"none"}, call : Calls]

\* outcome is what the caller goes on with: what it asked for, or its failure.
NoRequest == [pc |-> "out", caller |-> "none", policy |-> "local_first", at |-> 1,
              tries |-> 0, lost |-> {}, answer |-> {}, outcome |-> "none"]

GatewayTypeOK ==
  /\ \A r \in Requests :
       /\ ask[r].pc \in {"out", "submit", "wait", "answered", "done"}
       /\ ask[r].caller \in Callers \cup {"none"} /\ ask[r].policy \in Policies
       /\ ask[r].at \in 1..2 /\ ask[r].tries \in 0..(MaxRetries + 1)
       /\ ask[r].lost \subseteq Calls /\ ask[r].answer \subseteq Answers
       /\ ask[r].outcome \in {"none", "served", "failed"}
  /\ pending \in Seq(Calls) /\ running \subseteq Calls

GatewayInit ==
  /\ ask = [r \in Requests |-> NoRequest]
  /\ pending = <<>> /\ running = {}

Chain(policy) ==
  CASE policy = "local_only" -> <<"ollama">>
    [] policy = "cloud_only" -> <<"cloud">>
    [] policy = "cloud_first" -> <<"cloud", "ollama">>
    [] policy = "local_first" -> <<"ollama", "cloud">>

\* The call that request r waits for.
Current(r) == <<r, Chain(ask[r].policy)[ask[r].at], ask[r].tries>>
Waiting(r) == ask[r].pc = "wait"

\* A caller takes the policy of the settings, which staff may have set to any;
\* the analyzer of the lab asks for local_only whatever they say.
Generate(r, caller, policy) ==
  /\ ask[r].pc = "out"
  /\ caller = "lab" => policy = "local_only"
  /\ ask' = [ask EXCEPT ![r] =
               [NoRequest EXCEPT !.pc = "submit", !.caller = caller, !.policy = policy]]
  /\ UNCHANGED <<pending, running>>

Submit(r) ==
  /\ ask[r].pc = "submit"
  /\ ask' = [ask EXCEPT ![r].pc = "wait", ![r].tries = @ + 1]
  /\ pending' = Append(pending, Current(r)')
  /\ UNCHANGED running

Start ==
  /\ pending # <<>>
  /\ Cardinality(running) < PoolThreads
  /\ running' = running \cup {Head(pending)}
  /\ pending' = Tail(pending)
  /\ UNCHANGED ask

Answered(r, c, finish, given) ==
  [ask[r] EXCEPT !.pc = "answered",
                 !.answer = {[finish |-> finish, given |-> given, call |-> c]}]

\* Call c failed: the same provider again when the error allows and tries
\* are left, then the next one of the chain, and after the last the failure.
Failed(r, c, retryable, failure, given) ==
  IF retryable /\ ask[r].tries <= MaxRetries
    THEN [ask[r] EXCEPT !.pc = "submit"]
  ELSE IF ask[r].at < Len(Chain(ask[r].policy))
    THEN [ask[r] EXCEPT !.pc = "submit", !.at = @ + 1, !.tries = 0]
  ELSE Answered(r, c, failure, given)

\* JSON that serves is the answer, called a fallback when an earlier provider
\* had failed.  What lacks the required field is not asked for again.
Heard(r, c, reply) ==
  CASE reply = "good" -> Answered(r, c, IF ask[r].at = 1 THEN "stop" ELSE "fallback", reply)
    [] reply = "unusable" -> Failed(r, c, FALSE, "schema_failure", reply)
    [] reply = "transient" -> Failed(r, c, TRUE, "error", reply)
    [] reply = "late" -> Failed(r, c, TRUE, "timeout", reply)
    [] reply = "fatal" -> Failed(r, c, FALSE, "error", reply)

\* Mutant of Awaits: whatever comes for the request while it waits.
AwaitsAny(r, c) == Waiting(r) /\ c[1] = r

\* Each call has a future of its own, and nobody reads that of a lost one.
Awaits(r, c) == Waiting(r) /\ c = Current(r)

Returns(c, reply) ==
  /\ c \in running
  /\ running' = running \ {c}
  /\ ask' = [r \in Requests |-> IF Awaits(r, c) THEN Heard(r, c, reply) ELSE ask[r]]
  /\ UNCHANGED pending

\* The wait ends before the call does, whether it runs or still queues.
TimesOut(r) ==
  /\ Waiting(r)
  /\ ask' = [ask EXCEPT ![r] =
       [Failed(r, Current(r), TRUE, "timeout", "none") EXCEPT !.lost = @ \cup {Current(r)}]]
  /\ UNCHANGED <<pending, running>>

Serves(answer) == answer.finish \in {"stop", "fallback"}

\* Authoring takes a failed answer for a failed item, and the lab for an error
\* of its analyzer, which also refuses counts that are not its own.  The voice
\* assistant never looks: it catches exceptions, which the gateway does not
\* raise, and puts a sentence of its own where the answer has none.
Outcomes(caller, answer) ==
  CASE caller = "voice" -> {"served"}
    [] caller = "copy" -> IF Serves(answer) THEN {"served"} ELSE {"failed"}
    [] caller = "lab" -> IF Serves(answer) THEN {"served", "failed"} ELSE {"failed"}

Receive(r) ==
  /\ ask[r].pc = "answered"
  /\ \E a \in ask[r].answer : \E outcome \in Outcomes(ask[r].caller, a) :
       ask' = [ask EXCEPT ![r].pc = "done", ![r].outcome = outcome]
  /\ UNCHANGED <<pending, running>>

GatewayNext ==
  \/ Start
  \/ \E r \in Requests : Submit(r) \/ TimesOut(r) \/ Receive(r)
  \/ \E r \in Requests, caller \in Callers, policy \in Policies : Generate(r, caller, policy)
  \/ \E c \in Calls, reply \in Replies : Returns(c, reply)

GatewaySpec == GatewayInit /\ [][GatewayNext]_gatewayVars

-----------------------------------------------------------------------------
(* Properties.                                                             *)

\* Whether a request was asked of the first provider of its policy only.
FirstChoice(r, provider) == provider = Chain(ask[r].policy)[1]

\* However calls queue, hang, come too late or fail, an answer is the request's
\* own: it was given in time by the call the request waited for, it serves the
\* task, it is called a fallback exactly when it is not from the provider that
\* the policy names first, and a timeout when the call was given up or said so itself.
AnswersAreOwn ==
  \A r \in Requests : \A a \in ask[r].answer :
    /\ a.call[1] = r
    /\ Serves(a) => /\ a.call \notin ask[r].lost
                    /\ a.given = "good"
                    /\ a.finish = "stop" <=> FirstChoice(r, a.call[2])
    /\ a.finish = "timeout" <=> (a.call \in ask[r].lost \/ a.given = "late")

\* A request that only one provider may see is in no call to the other, not
\* even in one that outlives it.
PolicyIsKept ==
  \A c \in running \cup {pending[i] : i \in 1..Len(pending)} :
    /\ ask[c[1]].policy = "local_only" => c[2] = "ollama"
    /\ ask[c[1]].policy = "cloud_only" => c[2] = "cloud"

\* Staff is shown a draft or a report only if a model gave one.
AnswerIsEarned ==
  /\ AnswersAreOwn /\ PolicyIsKept
  /\ \A r \in Requests : ask[r].outcome = "served" /\ ask[r].caller # "voice" =>
       \A a \in ask[r].answer : a.given = "good"

\* What docs/adr/0007 says of the assistant of a voice turn: work that is
\* exhausted reaches its failure terminal.
ExhaustedAssistantFails ==
  \A r \in Requests : ask[r].caller = "voice" =>
    \A a \in ask[r].answer : ~ Serves(a) => ask[r].outcome \in {"none", "failed"}
=============================================================================
