------------------------------ MODULE RpcClient ------------------------------
(***************************************************************************)
(* Client.post of internal/outline/client.go: one call to Outline, sent    *)
(* again after a 429, under the request's context and the HTTP client's    *)
(* time limit.  Calls share nothing, so one caller is followed, and the    *)
(* next call is looked at when nothing is left of the last one.  Time is   *)
(* counted down in seconds by Tick, which never runs past a timer.         *)
(***************************************************************************)
EXTENDS Integers

CONSTANTS
  MaxRetries,   \* maxRetries: how often a call is sent again
  Timeout,      \* the limit of http.Client for one request and its reply
  MaxDelay,     \* the longest delay a Retry-After header may ask for
  Headers       \* Retry-After headers, 0 for one that Atoi does not parse

ASSUME TimesAssumption ==
  /\ MaxRetries \in Nat
  /\ Timeout \in Nat \ {0} /\ MaxDelay \in Nat \ {0}
  /\ Headers \subseteq Int

VARIABLES
  pc,           \* where in post the caller is
  wants,        \* out # nil: the caller needs the body
  attempt,      \* the local of that name
  left,         \* seconds until the timer that runs fires
  clock,        \* seconds since the call began
  cancelled,    \* the request's context is done
  wire,         \* the request or the reply that is on its way
  reply,        \* that reply
  done,         \* how often Outline has carried out the call
  outcome       \* what post returned

callVars == <<pc, wants, attempt, left, clock, cancelled, wire, reply, done, outcome>>

(* "garbled" is a body below 400 that does not decode. *)
Codes == {"ok", "garbled", "limited", "notFound", "failed"}
Replies == [code : Codes \ {"limited"}, after : {0}]
           \cup [code : {"limited"}, after : Headers \cup {0}]
NoReply == [code |-> "failed", after |-> 0]

(* Every local of post, and what is under way, has its type. *)
CallTypeOK ==
  /\ pc \in {"idle", "send", "flight", "wait"}
  /\ wants \in BOOLEAN /\ cancelled \in BOOLEAN
  /\ attempt \in 0..MaxRetries
  /\ left \in Nat /\ clock \in Nat
  /\ wire \in {"none", "request", "reply"}
  /\ reply \in Replies
  /\ done \in Nat
  /\ outcome \in {"none", "ok", "notFound", "error"}

CallInit ==
  /\ pc = "idle" /\ wants = FALSE /\ attempt = 0
  /\ left = 0 /\ clock = 0 /\ cancelled = FALSE
  /\ wire = "none" /\ reply = NoReply
  /\ done = 0 /\ outcome = "none"

-----------------------------------------------------------------------------
(* The caller *)

(* The next call of the same request, or the first one of another. *)
Begin(body) ==
  /\ pc = "idle" /\ wire = "none"
  /\ pc' = "send" /\ wants' = body /\ attempt' = 0
  /\ clock' = 0 /\ done' = 0 /\ outcome' = "none"
  /\ cancelled' \in {cancelled, FALSE}
  /\ UNCHANGED <<left, wire, reply>>

Return(o) ==
  /\ pc' = "idle" /\ outcome' = o /\ left' = 0
  /\ UNCHANGED <<wants, attempt, clock, cancelled, done>>

(* Do does not send a request whose context is done. *)
Send ==
  /\ pc = "send" /\ ~ cancelled
  /\ pc' = "flight" /\ left' = Timeout /\ wire' = "request"
  /\ UNCHANGED <<wants, attempt, clock, cancelled, reply, done, outcome>>

\* A mutant of RetryAfter: the delay is not bounded.
RetryAfterUnbounded(h) == IF h > 0 THEN h ELSE 1

RetryAfter(h) ==
  IF h > 0 THEN IF h > MaxDelay THEN MaxDelay ELSE h ELSE 1

\* A mutant of Again: every failure is tried again.
AgainAfterFailure(code) == code \in {"limited", "failed"} /\ attempt < MaxRetries

Again(code) == code = "limited" /\ attempt < MaxRetries

\* What post returns for a reply it does not retry.
Result(code) ==
  CASE code = "ok" \/ (code = "garbled" /\ ~ wants) -> "ok"
    [] code = "notFound" -> "notFound"
    [] OTHER -> "error"

Retry ==
  /\ pc = "flight" /\ wire = "reply" /\ Again(reply.code)
  /\ pc' = "wait" /\ left' = RetryAfter(reply.after) /\ wire' = "none"
  /\ UNCHANGED <<wants, attempt, clock, cancelled, reply, done, outcome>>

Accept ==
  /\ pc = "flight" /\ wire = "reply" /\ ~ Again(reply.code)
  /\ wire' = "none" /\ UNCHANGED reply
  /\ Return(Result(reply.code))

Resume ==
  /\ pc = "wait" /\ left = 0
  /\ pc' = "send" /\ attempt' = attempt + 1
  /\ UNCHANGED <<wants, left, clock, cancelled, wire, reply, done, outcome>>

\* A mutant of GiveUp: the HTTP client has no time limit.
GiveUpOnCancel ==
  /\ cancelled /\ pc # "idle"
  /\ Return("error")
  /\ wire' = IF wire = "reply" THEN "none" ELSE wire
  /\ UNCHANGED reply

(* The time limit or the context: at "wait" select may pick either channel  *)
(* when both are ready.  A request that has left may still reach Outline.   *)
GiveUp ==
  /\ \/ pc = "flight" /\ left = 0
     \/ cancelled /\ pc # "idle"
  /\ Return("error")
  /\ wire' = IF wire = "reply" THEN "none" ELSE wire
  /\ UNCHANGED reply

\* The connection breaks.
Break ==
  /\ pc = "flight"
  /\ Return("error")
  /\ wire' \in {"none"} \cup ({wire} \cap {"request"})
  /\ UNCHANGED reply

-----------------------------------------------------------------------------
(* Outline, the context and time *)

(* Outline answers 429 and 404 without carrying the call out; another       *)
(* failure may come before or after the effect.  Nobody hears the answer    *)
(* to a call that has returned.                                             *)
Serve ==
  /\ wire = "request"
  /\ reply' \in Replies
  /\ done' \in CASE reply'.code \in {"ok", "garbled"} -> {done + 1}
                 [] reply'.code \in {"limited", "notFound"} -> {done}
                 [] OTHER -> {done, done + 1}
  /\ wire' = IF pc = "flight" THEN "reply" ELSE "none"
  /\ UNCHANGED <<pc, wants, attempt, left, clock, cancelled, outcome>>

Lose ==
  /\ wire # "none"
  /\ wire' = "none"
  /\ UNCHANGED <<pc, wants, attempt, left, clock, cancelled, reply, done, outcome>>

(* The identity provider closes the connection. *)
Cancel ==
  /\ ~ cancelled /\ cancelled' = TRUE
  /\ UNCHANGED <<pc, wants, attempt, left, clock, wire, reply, done, outcome>>

Tick ==
  /\ left > 0
  /\ left' = left - 1 /\ clock' = clock + 1
  /\ UNCHANGED <<pc, wants, attempt, cancelled, wire, reply, done, outcome>>

Post == Send \/ Retry \/ Accept \/ Resume \/ GiveUp \/ Break

CallNext ==
  \/ \E body \in BOOLEAN : Begin(body)
  \/ Post \/ Serve \/ Lose \/ Cancel \/ Tick

CallSpec == CallInit /\ [][CallNext]_callVars

-----------------------------------------------------------------------------
(* Properties *)

(* A call that is sent again was not carried out before; a reply tells what *)
(* became of its request; a request is on its way only while its caller     *)
(* waits, or after the caller was told of an error.                         *)
Progress ==
  /\ pc \in {"send", "wait"} => done = 0 /\ wire = "none"
  /\ pc = "wait" => attempt < MaxRetries
  /\ pc \in {"idle", "send"} => left = 0
  /\ wire = "request" => done = 0 /\ (pc = "flight" \/ (pc = "idle" /\ outcome = "error"))
  /\ wire = "reply" =>
       /\ pc = "flight"
       /\ reply.code \in {"ok", "garbled"} => done = 1
       /\ reply.code \in {"limited", "notFound"} => done = 0
  /\ pc # "idle" => outcome = "none"
  /\ done <= 1

Round == Timeout + MaxDelay

(* A hung or rate-limiting Outline never stalls a call for longer than      *)
(* three requests and two delays take (client.go:20-23), however long the   *)
(* delay it asks for.                                                       *)
TimeBound ==
  /\ clock + left <=
       CASE pc = "send" -> attempt * Round
         [] pc = "flight" -> attempt * Round + Timeout
         [] pc = "wait" -> attempt * Round + Round
         [] OTHER -> MaxRetries * Round + Timeout
  /\ clock + left <= MaxRetries * Round + Timeout

CallInv == CallTypeOK /\ Progress /\ TimeBound

(* A call with all its attempts, delays, cancellations and lost replies is  *)
(* what the handlers take it for: carried out at most once, told the truth  *)
(* about (client.go:74-143).                                                *)
Once == INSTANCE OneCall WITH busy <- pc # "idle"

CallIsOnce == Once!OSpec
=============================================================================
