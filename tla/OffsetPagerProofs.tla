-------------------------- MODULE OffsetPagerProofs --------------------------
(***************************************************************************)
(* Proofs about Client.post and the paging loop, for any number of retries,*)
(* any time limits, headers, lists and page sizes.                         *)
(***************************************************************************)
EXTENDS OffsetPager, TLAPS

-----------------------------------------------------------------------------
(* One call *)

LEMMA TimesFacts ==
  /\ MaxRetries \in Nat /\ Timeout \in Nat /\ MaxDelay \in Nat /\ MaxDelay >= 1
  /\ Round \in Nat /\ Round = Timeout + MaxDelay
BY TimesAssumption DEF Round

LEMMA Rounds ==
  ASSUME NEW k \in 0..MaxRetries
  PROVE  /\ k * Round \in Nat
         /\ k * Round <= MaxRetries * Round
         /\ (k + 1) * Round = k * Round + Round
<1> DEFINE R == Round
<1>1. R \in Nat /\ MaxRetries \in Nat /\ k \in Nat /\ k <= MaxRetries
  BY TimesFacts
<1> HIDE DEF R
<1>2. k * R \in Nat /\ k * R <= MaxRetries * R /\ (k + 1) * R = k * R + R
  BY <1>1
<1> QED
  BY <1>2 DEF R

LEMMA DelayBound ==
  ASSUME NEW h \in Headers \cup {0}
  PROVE  RetryAfter(h) \in Nat /\ RetryAfter(h) <= MaxDelay
<1>1. h \in Int
  BY TimesAssumption
<1> QED
  BY <1>1, TimesFacts DEF RetryAfter

LEMMA NoReplyTyped == NoReply \in Replies
BY DEF NoReply, Replies, Codes

LEMMA RepliesFacts ==
  ASSUME NEW r \in Replies
  PROVE  r.code \in Codes /\ r.after \in Headers \cup {0}
BY DEF Replies, Codes

LEMMA ResultTyped ==
  ASSUME NEW c \in Codes
  PROVE  Result(c) \in {"ok", "notFound", "error"}
BY DEF Result, Codes

LEMMA CallInvInit == CallInit => CallInv
<1> SUFFICES ASSUME CallInit PROVE CallInv
  OBVIOUS
<1>0. reply \in Replies /\ attempt \in 0..MaxRetries
  BY NoReplyTyped, TimesFacts DEF CallInit
<1>1. CallTypeOK
  BY <1>0 DEF CallInit, CallTypeOK
<1>2. Progress
  BY DEF CallInit, Progress
<1>3. MaxRetries * Round + Timeout >= 0
  BY TimesFacts, Rounds
<1>4. TimeBound
  BY <1>3 DEF CallInit, TimeBound
<1> QED
  BY <1>1, <1>2, <1>4 DEF CallInv

LEMMA BeginKeepsInv ==
  ASSUME CallInv, NEW body \in BOOLEAN, Begin(body)
  PROVE  CallInv'
<1>0. left = 0 /\ 0 \in 0..MaxRetries
  BY TimesFacts DEF CallInv, Progress, Begin
<1>1. CallTypeOK'
  BY <1>0 DEF CallInv, CallTypeOK, Begin
<1>2. Progress'
  BY <1>0 DEF CallInv, Progress, Begin
<1>3. TimeBound'
  BY <1>0, Rounds, TimesFacts DEF TimeBound, Begin
<1> QED
  BY <1>1, <1>2, <1>3 DEF CallInv

(* What every way to return leaves. *)
LEMMA ReturnKeepsInv ==
  ASSUME CallInv, NEW o \in {"ok", "notFound", "error"}, pc # "idle", Return(o),
         reply' = reply, wire' \in {"none"} \cup ({wire} \cap {"request"}),
         wire' = "request" => o = "error"
  PROVE  CallInv'
<1>1. CallTypeOK'
  BY DEF CallInv, CallTypeOK, Return
<1>2. Progress'
  BY DEF CallInv, Progress, Return
<1>3. clock + left <= MaxRetries * Round + Timeout /\ clock \in Nat /\ left \in Nat
  BY DEF CallInv, CallTypeOK, TimeBound
<1>4. MaxRetries * Round \in Nat
  BY Rounds, TimesFacts
<1>5. clock + 0 <= MaxRetries * Round + Timeout
  BY <1>3, <1>4, TimesFacts
<1>6. TimeBound'
  BY <1>5 DEF TimeBound, Return
<1> QED
  BY <1>1, <1>2, <1>6 DEF CallInv

LEMMA SendKeepsInv ==
  ASSUME CallInv, Send
  PROVE  CallInv'
<1>1. CallTypeOK'
  BY TimesFacts DEF CallInv, CallTypeOK, Send
<1>2. Progress'
  BY DEF CallInv, Progress, Send
<1>3. left = 0 /\ attempt \in 0..MaxRetries /\ clock \in Nat /\ clock + left <= attempt * Round
  BY DEF CallInv, CallTypeOK, Progress, TimeBound, Send
<1>4. clock + Timeout <= attempt * Round + Timeout /\ clock + Timeout <= MaxRetries * Round + Timeout
  BY <1>3, Rounds, TimesFacts
<1>5. TimeBound'
  BY <1>4 DEF TimeBound, Send
<1> QED
  BY <1>1, <1>2, <1>5 DEF CallInv

LEMMA RetryKeepsInv ==
  ASSUME CallInv, Retry
  PROVE  CallInv'
<1>0. /\ reply \in Replies /\ attempt \in 0..MaxRetries /\ attempt < MaxRetries
      /\ reply.code = "limited" /\ clock \in Nat /\ left \in Nat
      /\ clock + left <= attempt * Round + Timeout
  BY DEF CallInv, CallTypeOK, TimeBound, Retry, Again
<1>1. RetryAfter(reply.after) \in Nat /\ RetryAfter(reply.after) <= MaxDelay
  BY <1>0, RepliesFacts, DelayBound
<1> DEFINE d == RetryAfter(reply.after)
<1> HIDE DEF d
<1>2. CallTypeOK'
  BY <1>1 DEF CallInv, CallTypeOK, Retry
<1>3. Progress'
  BY <1>0 DEF CallInv, Progress, Retry
<1>4. attempt + 1 \in 0..MaxRetries /\ (attempt + 1) * Round = attempt * Round + Round
      /\ (attempt + 1) * Round <= MaxRetries * Round /\ attempt * Round \in Nat
  <2>1. attempt + 1 \in 0..MaxRetries
    BY <1>0, TimesFacts
  <2> QED
    BY <2>1, <1>0, Rounds
<1>5. d \in Nat /\ d <= MaxDelay
  BY <1>1 DEF d
<1>6. MaxRetries * Round \in Nat
  BY Rounds, TimesFacts
<1>7. clock + d <= attempt * Round + Round /\ clock + d <= MaxRetries * Round + Timeout
  BY <1>0, <1>4, <1>5, <1>6, TimesFacts
<1>8. clock' = clock /\ left' = d /\ attempt' = attempt /\ pc' = "wait"
  BY DEF Retry, d
<1>9. TimeBound'
  BY <1>7, <1>8 DEF TimeBound
<1> QED
  BY <1>2, <1>3, <1>9 DEF CallInv

LEMMA ResumeKeepsInv ==
  ASSUME CallInv, Resume
  PROVE  CallInv'
<1>0. /\ attempt \in 0..MaxRetries /\ attempt < MaxRetries /\ clock \in Nat /\ left = 0
      /\ clock + left <= attempt * Round + Round
      /\ clock + left <= MaxRetries * Round + Timeout
  BY DEF CallInv, CallTypeOK, Progress, TimeBound, Resume
<1>1. attempt + 1 \in 0..MaxRetries
  BY <1>0, TimesFacts
<1>2. (attempt + 1) * Round = attempt * Round + Round
  BY <1>0, Rounds
<1>3. CallTypeOK'
  BY <1>1 DEF CallInv, CallTypeOK, Resume
<1>4. Progress'
  BY <1>0 DEF CallInv, Progress, Resume
<1>5. TimeBound'
  BY <1>0, <1>2 DEF TimeBound, Resume
<1> QED
  BY <1>3, <1>4, <1>5 DEF CallInv

LEMMA ServeKeepsInv ==
  ASSUME CallInv, Serve
  PROVE  CallInv'
<1>0. done = 0 /\ done' \in {0, 1} /\ reply' \in Replies
      /\ (reply'.code \in {"ok", "garbled"} => done' = 1)
      /\ (reply'.code \in {"limited", "notFound"} => done' = 0)
  BY DEF CallInv, Progress, Serve
<1>1. CallTypeOK'
  BY <1>0 DEF CallInv, CallTypeOK, Serve
<1>2. Progress'
  BY <1>0 DEF CallInv, Progress, Serve
<1>3. TimeBound'
  BY DEF CallInv, TimeBound, Serve
<1> QED
  BY <1>1, <1>2, <1>3 DEF CallInv

LEMMA OthersKeepInv ==
  ASSUME CallInv, Lose \/ Cancel \/ Tick
  PROVE  CallInv'
<1>1. CASE Lose \/ Cancel
  <2>1. CallTypeOK'
    BY <1>1 DEF CallInv, CallTypeOK, Lose, Cancel
  <2>2. Progress'
    BY <1>1 DEF CallInv, Progress, Lose, Cancel
  <2>3. TimeBound'
    BY <1>1 DEF CallInv, TimeBound, Lose, Cancel
  <2> QED
    BY <2>1, <2>2, <2>3 DEF CallInv
<1>2. CASE Tick
  <2>1. left \in Nat /\ left > 0 /\ clock \in Nat
    BY <1>2 DEF CallInv, CallTypeOK, Tick
  <2>2. left' \in Nat /\ clock' \in Nat /\ clock' + left' = clock + left
    BY <1>2, <2>1 DEF Tick
  <2>3. CallTypeOK'
    BY <1>2, <2>2 DEF CallInv, CallTypeOK, Tick
  <2>4. Progress'
    BY <1>2, <2>1 DEF CallInv, Progress, Tick
  <2>5. TimeBound'
    BY <1>2, <2>2 DEF CallInv, TimeBound, Tick
  <2> QED
    BY <2>3, <2>4, <2>5 DEF CallInv
<1> QED
  BY <1>1, <1>2

LEMMA CallInvNext == CallInv /\ [CallNext]_callVars => CallInv'
<1> SUFFICES ASSUME CallInv, [CallNext]_callVars PROVE CallInv'
  OBVIOUS
<1>1. CASE \E body \in BOOLEAN : Begin(body)
  BY <1>1, BeginKeepsInv
<1>2. CASE Send \/ Retry \/ Resume \/ Serve \/ Lose \/ Cancel \/ Tick
  BY <1>2, SendKeepsInv, RetryKeepsInv, ResumeKeepsInv, ServeKeepsInv, OthersKeepInv
<1>3. CASE Accept
  <2>1. Result(reply.code) \in {"ok", "notFound", "error"}
    BY RepliesFacts, ResultTyped DEF CallInv, CallTypeOK
  <2> QED
    BY <1>3, <2>1, ReturnKeepsInv DEF Accept
<1>4. CASE GiveUp \/ Break
  <2>1. wire \in {"none", "request", "reply"}
    BY DEF CallInv, CallTypeOK
  <2> QED
    BY <1>4, <2>1, ReturnKeepsInv DEF GiveUp, Break
<1>5. CASE UNCHANGED callVars
  <2>1. CallTypeOK'
    BY <1>5 DEF CallInv, CallTypeOK, callVars
  <2>2. Progress'
    BY <1>5 DEF CallInv, Progress, callVars
  <2>3. TimeBound'
    BY <1>5 DEF CallInv, TimeBound, callVars
  <2> QED
    BY <2>1, <2>2, <2>3 DEF CallInv
<1> QED
  BY <1>1, <1>2, <1>3, <1>4, <1>5 DEF CallNext, Post

-----------------------------------------------------------------------------
(* The abstract call *)

LEMMA OnceInit == CallInit => Once!OInit
BY DEF CallInit, Once!OInit

LEMMA OnceNext == CallInv /\ [CallNext]_callVars => [Once!ONext]_(Once!onceVars)
<1> SUFFICES ASSUME CallInv, [CallNext]_callVars
             PROVE  Once!ONext \/ UNCHANGED <<pc # "idle", done, outcome>>
  BY DEF Once!onceVars
<1>1. CASE \E body \in BOOLEAN : Begin(body)
  BY <1>1 DEF Begin, Once!ONext, Once!Start
<1>2. CASE Send \/ Retry \/ Resume \/ Lose \/ Cancel \/ Tick \/ UNCHANGED callVars
  BY <1>2 DEF Send, Retry, Resume, Lose, Cancel, Tick, callVars
<1>3. CASE Serve
  <2>1. done = 0 /\ done' \in {0, 1}
    BY <1>3 DEF CallInv, Progress, Serve
  <2>2. (pc # "idle" \/ outcome = "error") /\ pc' = pc /\ outcome' = outcome
    BY <1>3 DEF CallInv, Progress, Serve
  <2>3. CASE done' = 0
    BY <2>1, <2>2, <2>3
  <2>4. CASE done' = 1
    <3>1. Once!CarryOut
      BY <2>1, <2>2, <2>4 DEF Once!CarryOut
    <3> QED
      BY <3>1 DEF Once!ONext
  <2> QED
    BY <2>1, <2>3, <2>4
<1>4. CASE Accept
  <2> DEFINE o == Result(reply.code)
  <2>1. o \in {"ok", "notFound", "error"} /\ reply.code \in Codes
    BY RepliesFacts, ResultTyped DEF CallInv, CallTypeOK
  <2>2. (o = "ok" => done = 1) /\ (o = "notFound" => done = 0)
    BY <1>4 DEF CallInv, Progress, Accept, Result
  <2>3. pc # "idle" /\ pc' = "idle" /\ outcome' = o /\ done' = done
    BY <1>4 DEF Accept, Return
  <2> HIDE DEF o
  <2>4. Once!Tell(o)
    BY <2>2, <2>3 DEF Once!Tell
  <2> QED
    BY <2>1, <2>4 DEF Once!ONext
<1>5. CASE GiveUp \/ Break
  <2>1. Once!Tell("error")
    BY <1>5 DEF GiveUp, Break, Return, Once!Tell
  <2> QED
    BY <2>1 DEF Once!ONext
<1> QED
  BY <1>1, <1>2, <1>3, <1>4, <1>5 DEF CallNext, Post

-----------------------------------------------------------------------------
(* The steps of a listing are steps of a call *)

LEMMA PagerStep == [Next]_vars => [CallNext]_callVars
<1> SUFFICES ASSUME [Next]_vars PROVE CallNext \/ UNCHANGED callVars
  OBVIOUS
<1>1. CASE ListBegin \/ NextPage \/ OtherCall
  BY <1>1 DEF ListBegin, NextPage, OtherCall, CallNext
<1>2. CASE CallStep \/ ServePage
  BY <1>2 DEF CallStep, ServePage, CallNext
<1>3. CASE ListDone \/ ListFails
  BY <1>3 DEF ListDone, ListFails
<1>4. CASE \/ \E e \in Entries, k \in 1..Len(list) + 1 : Insert(e, k)
           \/ \E k \in 1..Len(list) : Remove(k)
  BY <1>4 DEF Insert, Remove
<1>5. CASE UNCHANGED vars
  BY <1>5 DEF vars
<1> QED
  BY <1>1, <1>2, <1>3, <1>4, <1>5 DEF Next

(* Every call of a listing, and every other call, is typed, makes progress  *)
(* in attempts that did nothing so far, and ends within its time.           *)
THEOREM CallsBounded == Spec => []CallInv
<1>1. Init => CallInv
  BY CallInvInit DEF Init
<1>2. CallInv /\ [Next]_vars => CallInv'
  BY CallInvNext, PagerStep
<1> QED
  BY <1>1, <1>2, PTL DEF Spec

(* A call with its attempts, delays and lost replies is one call. *)
THEOREM CallIsCarriedOutOnce == Spec => CallIsOnce
<1>1. Init => Once!OInit
  BY OnceInit DEF Init
<1>2. CallInv /\ [Next]_vars => [Once!ONext]_(Once!onceVars)
  BY OnceNext, PagerStep
<1> QED
  BY <1>1, <1>2, CallsBounded, PTL DEF Spec, CallIsOnce, Once!OSpec

-----------------------------------------------------------------------------
(* Sequences *)

LEMMA TupleInSeq ==
  ASSUME NEW S, NEW n \in Nat, NEW s \in [1..n -> S]
  PROVE  s \in Seq(S) /\ Len(s) = n
OBVIOUS

LEMMA InCat ==
  ASSUME NEW s \in Seq(Entries), NEW t \in Seq(Entries), NEW e
  PROVE  InSeq(e, s \o t) <=> InSeq(e, s) \/ InSeq(e, t)
<1>1. Len(s \o t) = Len(s) + Len(t) /\ Len(s) \in Nat /\ Len(t) \in Nat
  OBVIOUS
<1>2. \A i \in 1..Len(s) : (s \o t)[i] = s[i]
  OBVIOUS
<1>3. \A i \in 1..Len(t) : (s \o t)[Len(s) + i] = t[i]
  OBVIOUS
<1>4. ASSUME InSeq(e, s \o t) PROVE InSeq(e, s) \/ InSeq(e, t)
  <2>1. PICK i \in 1..Len(s \o t) : (s \o t)[i] = e
    BY <1>4 DEF InSeq
  <2>2. CASE i <= Len(s)
    BY <2>1, <2>2, <1>1, <1>2 DEF InSeq
  <2>3. CASE i > Len(s)
    <3>1. i - Len(s) \in 1..Len(t) /\ Len(s) + (i - Len(s)) = i
      BY <2>1, <2>3, <1>1
    <3> QED
      BY <3>1, <2>1, <1>3 DEF InSeq
  <2> QED
    BY <2>2, <2>3, <1>1
<1>5. ASSUME InSeq(e, s) PROVE InSeq(e, s \o t)
  <2>1. PICK i \in 1..Len(s) : s[i] = e
    BY <1>5 DEF InSeq
  <2>2. i \in 1..Len(s \o t) /\ (s \o t)[i] = e
    BY <2>1, <1>1, <1>2
  <2> QED
    BY <2>2 DEF InSeq
<1>6. ASSUME InSeq(e, t) PROVE InSeq(e, s \o t)
  <2>1. PICK i \in 1..Len(t) : t[i] = e
    BY <1>6 DEF InSeq
  <2>2. Len(s) + i \in 1..Len(s \o t) /\ (s \o t)[Len(s) + i] = e
    BY <2>1, <1>1, <1>3
  <2> QED
    BY <2>2 DEF InSeq
<1> QED
  BY <1>4, <1>5, <1>6

LEMMA NoRepeatCat ==
  ASSUME NEW s \in Seq(Entries), NEW t \in Seq(Entries), NoRepeat(s), NoRepeat(t),
         \A i \in 1..Len(t) : ~ InSeq(t[i], s)
  PROVE  NoRepeat(s \o t)
<1>1. Len(s \o t) = Len(s) + Len(t) /\ Len(s) \in Nat /\ Len(t) \in Nat
  OBVIOUS
<1>2. \A i \in 1..Len(s) : (s \o t)[i] = s[i]
  OBVIOUS
<1>3. \A i \in 1..Len(s) + Len(t) : i > Len(s) =>
        i - Len(s) \in 1..Len(t) /\ (s \o t)[i] = t[i - Len(s)]
  OBVIOUS
<1>4. SUFFICES ASSUME NEW i \in 1..Len(s) + Len(t), NEW j \in 1..Len(s) + Len(t),
                      (s \o t)[i] = (s \o t)[j]
               PROVE  i = j
  BY <1>1 DEF NoRepeat
<1>5. CASE i <= Len(s) /\ j <= Len(s)
  BY <1>1, <1>2, <1>4, <1>5 DEF NoRepeat
<1>6. CASE i > Len(s) /\ j > Len(s)
  <2>1. i - Len(s) = j - Len(s)
    BY <1>3, <1>4, <1>6 DEF NoRepeat
  <2> QED
    BY <2>1, <1>1
<1>7. CASE i <= Len(s) /\ j > Len(s)
  BY <1>1, <1>2, <1>3, <1>4, <1>7 DEF InSeq
<1>8. CASE i > Len(s) /\ j <= Len(s)
  BY <1>1, <1>2, <1>3, <1>4, <1>8 DEF InSeq
<1> QED
  BY <1>1, <1>5, <1>6, <1>7, <1>8

LEMMA PageFacts ==
  ASSUME list \in Seq(Entries), NEW k \in Nat
  PROVE  /\ PageAt(k) \in Pages
         /\ PageAt(k).total = Len(list)
         /\ PageAt(k).data \in Seq(Entries) /\ Len(PageAt(k).data) \in Nat
         /\ \A i \in 1..Len(PageAt(k).data) :
              k + i \in 1..Len(list) /\ PageAt(k).data[i] = list[k + i]
         /\ Len(PageAt(k).data) = 0 => k >= Len(list)
         /\ k < Len(list) => k + Len(PageAt(k).data) <= Len(list)
<1> DEFINE size == IF k >= Len(list) THEN 0
                   ELSE IF Len(list) - k < Limit THEN Len(list) - k ELSE Limit
           data == [i \in 1..size |-> list[k + i]]
<1>1. Limit \in Nat \ {0} /\ Len(list) \in Nat
  BY ListsAssumption
<1>2. size \in Nat /\ (size = 0 => k >= Len(list)) /\ (k < Len(list) => k + size <= Len(list))
      /\ \A i \in 1..size : k + i \in 1..Len(list)
  BY <1>1
<1> HIDE DEF size
<1>3. \A i \in 1..size : list[k + i] \in Entries
  BY <1>2
<1>4. data \in [1..size -> Entries]
  BY <1>3
<1>5. data \in Seq(Entries) /\ Len(data) = size
  BY <1>2, <1>4, TupleInSeq
<1>6. \A i \in 1..size : data[i] = list[k + i]
  OBVIOUS
<1>7. PageAt(k).data = data /\ PageAt(k).total = Len(list) /\ PageAt(k) = [data |-> data, total |-> Len(list)]
  BY DEF PageAt, size
<1> HIDE DEF data
<1>8. PageAt(k) \in Pages
  BY <1>1, <1>5, <1>7 DEF Pages
<1> QED
  BY <1>1, <1>2, <1>5, <1>6, <1>7, <1>8

-----------------------------------------------------------------------------
(* The loop *)

LEMMA NoPageTyped == NoPage \in Pages
<1>1. <<>> \in Seq(Entries)
  OBVIOUS
<1> QED
  BY <1>1 DEF NoPage, Pages

LEMMA PagerInit == Init => PagerInv
<1> SUFFICES ASSUME Init PROVE PagerInv
  OBVIOUS
<1>1. <<>> \in Seq(Entries)
  OBVIOUS
<1>2. PagerTypeOK
  BY <1>1, NoPageTyped DEF Init, PagerTypeOK
<1>3. listed = "none"
  BY DEF Init
<1> QED
  BY <1>2, <1>3 DEF PagerInv, NoneSkipped, NoneAgain, FromTheStart, NothingMissed,
                    NothingTwice, ExactAtRest

LEMMA SameListing ==
  ASSUME PagerInv, UNCHANGED <<pagerVars, changeVars>>, PageValid' => PageValid
  PROVE  PagerInv'
<1> USE DEF pagerVars, changeVars
<1>1. PagerTypeOK'
  BY DEF PagerInv, PagerTypeOK
<1>2. NoneSkipped'
  BY DEF PagerInv, NoneSkipped, Beyond, InSeq, LastPage, NextOffset
<1>3. NoneAgain'
  BY DEF PagerInv, NoneAgain, NoRepeat, InSeq, NextOffset
<1>4. FromTheStart'
  BY DEF PagerInv, FromTheStart, PageAt
<1>5. NothingMissed' /\ NothingTwice' /\ ExactAtRest'
  BY DEF PagerInv, NothingMissed, NothingTwice, ExactAtRest, InSeq, NoRepeat
<1> QED
  BY <1>1, <1>2, <1>3, <1>4, <1>5 DEF PagerInv

LEMMA CallStepKeepsPager ==
  ASSUME CallInv, PagerInv, CallStep
  PROVE  PagerInv'
<1>1. ASSUME PageValid' PROVE PageValid
  <2>1. listed = "busy"
    BY <1>1 DEF PageValid, CallStep, pagerVars
  <2>2. CASE Send \/ Retry \/ Resume \/ GiveUp \/ Break
    BY <1>1, <2>1, <2>2 DEF PageValid, Send, Retry, Resume, GiveUp, Break, Return,
                            CallInv, Progress
  <2>3. CASE Accept \/ Lose \/ Cancel \/ Tick
    BY <1>1, <2>1, <2>3 DEF PageValid, Accept, Lose, Cancel, Tick
  <2> QED
    BY <2>2, <2>3 DEF CallStep, Post
<1> QED
  BY <1>1, SameListing DEF CallStep

LEMMA ListBeginKeepsPager ==
  ASSUME CallInv, PagerInv, ListBegin
  PROVE  PagerInv'
<1>1. /\ list' \in Seq(Entries) /\ NoRepeat(list') /\ before' = list' /\ Len(list') \in Nat
      /\ listed' = "busy" /\ offset' = 0 /\ all' = <<>> /\ ~ PageValid'
      /\ grown' = 0 /\ shrunk' = 0
  BY ListsAssumption DEF ListBegin, Begin, NoRepeat, PageValid
<1>2. <<>> \in Seq(Entries) /\ Len(<<>>) = 0
  OBVIOUS
<1>3. PagerTypeOK'
  BY <1>1, <1>2, NoPageTyped DEF ListBegin, PagerTypeOK
<1>4. NoneSkipped'
  BY <1>1 DEF NoneSkipped, Beyond
<1>5. NoneAgain'
  BY <1>1, <1>2 DEF NoneAgain, NoRepeat, InSeq
<1>6. FromTheStart'
  BY <1>1, <1>2 DEF FromTheStart
<1>7. NothingMissed' /\ NothingTwice' /\ ExactAtRest'
  BY <1>1 DEF NothingMissed, NothingTwice, ExactAtRest
<1> QED
  BY <1>3, <1>4, <1>5, <1>6, <1>7 DEF PagerInv

LEMMA ServeKeepsPager ==
  ASSUME CallInv, PagerInv, ServePage
  PROVE  PagerInv'
<1>1. UNCHANGED <<list, gone, listed, offset, all, before, grown, shrunk>>
  BY DEF ServePage, changeVars
<1>2. CASE listed # "busy"
  <2>1. UNCHANGED <<pagerVars, changeVars>> /\ ~ PageValid'
    BY <1>1, <1>2 DEF ServePage, pagerVars, changeVars, PageValid
  <2> QED
    BY <2>1, SameListing
<1>3. CASE listed = "busy"
  <2> DEFINE pg == PageAt(offset)
  <2>0. list \in Seq(Entries) /\ offset \in Nat /\ Len(list) \in Nat
    BY DEF PagerInv, PagerTypeOK
  <2>1. /\ pg \in Pages /\ pg.total = Len(list)
        /\ pg.data \in Seq(Entries) /\ Len(pg.data) \in Nat
        /\ \A i \in 1..Len(pg.data) :
             offset + i \in 1..Len(list) /\ pg.data[i] = list[offset + i]
        /\ Len(pg.data) = 0 => offset >= Len(list)
        /\ offset < Len(list) => offset + Len(pg.data) <= Len(list)
    BY <2>0, PageFacts
  <2>2. page' = pg
    BY <1>3 DEF ServePage
  <2>a. PageAt(offset)' = pg
    BY <1>1 DEF PageAt
  <2> HIDE DEF pg
  <2>3. PagerTypeOK'
    BY <1>1, <2>1, <2>2 DEF PagerInv, PagerTypeOK
  <2>4. NoneSkipped'
    <3>1. SUFFICES ASSUME shrunk = 0, NEW i \in 1..Len(before), ~ InSeq(before[i], all)
                   PROVE  /\ Beyond(before[i], offset)
                          /\ \/ InSeq(before[i], pg.data)
                             \/ /\ Beyond(before[i], offset + Len(pg.data))
                                /\ pg.data # <<>> /\ ~ (offset + Len(pg.data) >= pg.total)
      BY <1>1, <2>2 DEF NoneSkipped, Beyond, InSeq, LastPage, NextOffset
    <3>2. Beyond(before[i], offset)
      BY <1>3, <3>1 DEF PagerInv, NoneSkipped
    <3>3. PICK j \in 1..Len(list) : j > offset /\ list[j] = before[i]
      BY <3>2 DEF Beyond
    <3>4. CASE j <= offset + Len(pg.data)
      <4>1. j - offset \in 1..Len(pg.data) /\ offset + (j - offset) = j
        BY <2>0, <2>1, <3>3, <3>4
      <4> QED
        BY <4>1, <3>2, <3>3, <2>1 DEF InSeq
    <3>5. CASE j > offset + Len(pg.data)
      <4>1. offset < Len(list) /\ Len(pg.data) # 0 /\ offset + Len(pg.data) < Len(list)
        BY <2>0, <2>1, <3>3, <3>5
      <4>2. pg.data # <<>>
        BY <4>1
      <4> QED
        BY <4>1, <4>2, <3>2, <3>3, <3>5, <2>0, <2>1 DEF Beyond
    <3> QED
      BY <3>4, <3>5, <2>0, <2>1
  <2>5. NoneAgain'
    <3>1. SUFFICES ASSUME grown = 0
                   PROVE  /\ NoRepeat(pg.data)
                          /\ \A i \in 1..Len(pg.data) : ~ InSeq(pg.data[i], all)
                          /\ \A j \in 1..Len(list) : InSeq(list[j], pg.data) => j <= offset + Len(pg.data)
      BY <1>1, <1>3, <2>2 DEF PagerInv, NoneAgain, NoRepeat, InSeq, NextOffset
    <3>2. NoRepeat(list) /\ \A j \in 1..Len(list) : InSeq(list[j], all) => j <= offset
      BY <1>3, <3>1 DEF PagerInv, NoneAgain
    <3>3. NoRepeat(pg.data)
      <4>1. SUFFICES ASSUME NEW i \in 1..Len(pg.data), NEW j \in 1..Len(pg.data),
                            pg.data[i] = pg.data[j]
                     PROVE  i = j
        BY DEF NoRepeat
      <4>2. offset + i = offset + j
        BY <2>1, <3>2, <4>1 DEF NoRepeat
      <4> QED
        BY <4>2, <2>0, <2>1
    <3>4. \A i \in 1..Len(pg.data) : ~ InSeq(pg.data[i], all)
      BY <2>0, <2>1, <3>2
    <3>5. ASSUME NEW j \in 1..Len(list), InSeq(list[j], pg.data)
          PROVE  j <= offset + Len(pg.data)
      <4>1. PICK i \in 1..Len(pg.data) : pg.data[i] = list[j]
        BY <3>5 DEF InSeq
      <4>2. j = offset + i
        BY <4>1, <2>1, <3>2 DEF NoRepeat
      <4> QED
        BY <4>2, <2>0, <2>1
    <3> QED
      BY <3>3, <3>4, <3>5
  <2>6. FromTheStart'
    BY <1>1, <2>2, <2>a DEF PagerInv, FromTheStart
  <2>7. NothingMissed' /\ NothingTwice' /\ ExactAtRest'
    BY <1>1, <1>3 DEF NothingMissed, NothingTwice, ExactAtRest
  <2> QED
    BY <2>3, <2>4, <2>5, <2>6, <2>7 DEF PagerInv
<1> QED
  BY <1>2, <1>3

(* What holds of the longer result, before the loop goes on or ends. *)
LEMMA ReadFacts ==
  ASSUME PagerInv, PageRead
  PROVE  /\ PageValid /\ listed = "busy"
         /\ UNCHANGED <<list, before, grown, shrunk, gone>>
         /\ list \in Seq(Entries) /\ all \in Seq(Entries) /\ page.data \in Seq(Entries)
         /\ page.total \in Nat /\ offset \in Nat
         /\ Len(list) \in Nat /\ Len(all) \in Nat /\ Len(page.data) \in Nat
         /\ all' = all \o page.data /\ offset' = offset + Len(page.data)
         /\ all' \in Seq(Entries) /\ offset' \in Nat
         /\ \A e : InSeq(e, all') <=> InSeq(e, all) \/ InSeq(e, page.data)
<1>1. /\ list \in Seq(Entries) /\ all \in Seq(Entries) /\ page.data \in Seq(Entries)
      /\ page.total \in Nat /\ offset \in Nat
  BY DEF PagerInv, PagerTypeOK, Pages
<1>2. Len(list) \in Nat /\ Len(all) \in Nat /\ Len(page.data) \in Nat
  BY <1>1
<1>3. all' = all \o page.data /\ offset' = offset + Len(page.data)
  BY DEF PageRead, NextOffset
<1>4. all' \in Seq(Entries) /\ offset' \in Nat
  BY <1>1, <1>2, <1>3
<1>5. \A e : InSeq(e, all \o page.data) <=> InSeq(e, all) \/ InSeq(e, page.data)
  BY <1>1, InCat
<1> QED
  BY <1>1, <1>2, <1>3, <1>4, <1>5 DEF PageRead, PageValid, changeVars

LEMMA StartFacts ==
  ASSUME PagerInv, PageRead, grown = 0, shrunk = 0
  PROVE  /\ list = before
         /\ offset' = Len(all') /\ offset' <= Len(before)
         /\ \A i \in 1..Len(all') : all'[i] = before[i]
<1>1. /\ list = before /\ offset = Len(all) /\ offset <= Len(before)
      /\ \A i \in 1..Len(all) : all[i] = before[i]
      /\ page = PageAt(offset)
  BY ReadFacts DEF PagerInv, FromTheStart
<1>2. /\ \A i \in 1..Len(page.data) :
           offset + i \in 1..Len(list) /\ page.data[i] = list[offset + i]
      /\ Len(page.data) = 0 => offset >= Len(list)
      /\ offset < Len(list) => offset + Len(page.data) <= Len(list)
  BY <1>1, ReadFacts, PageFacts
<1>3. offset' = Len(all') /\ Len(all') = Len(all) + Len(page.data)
  BY <1>1, ReadFacts
<1>4. offset' <= Len(before)
  <2>1. CASE Len(page.data) = 0
    BY <2>1, <1>1, ReadFacts
  <2>2. CASE Len(page.data) # 0
    <3>1. 1 \in 1..Len(page.data)
      BY <2>2, ReadFacts
    <3>2. offset < Len(list)
      BY <3>1, <1>2, ReadFacts
    <3> QED
      BY <3>2, <1>1, <1>2, ReadFacts
  <2> QED
    BY <2>1, <2>2
<1>5. ASSUME NEW i \in 1..Len(all') PROVE all'[i] = before[i]
  <2>1. CASE i <= Len(all)
    BY <2>1, <1>1, <1>3, <1>5, ReadFacts
  <2>2. CASE i > Len(all)
    <3>1. i - Len(all) \in 1..Len(page.data) /\ Len(all) + (i - Len(all)) = i
      BY <2>2, <1>3, <1>5, ReadFacts
    <3>2. all'[i] = page.data[i - Len(all)]
      BY <2>2, <3>1, <1>3, <1>5, ReadFacts
    <3> QED
      BY <3>1, <3>2, <1>1, <1>2
  <2> QED
    BY <2>1, <2>2, <1>3, <1>5, ReadFacts
<1> QED
  BY <1>1, <1>3, <1>4, <1>5

LEMMA LastFacts ==
  ASSUME PagerInv, PageRead, LastPage, grown = 0, shrunk = 0
  PROVE  offset' >= Len(before)
<1>1. list = before /\ page = PageAt(offset)
  BY ReadFacts DEF PagerInv, FromTheStart
<1>2. page.total = Len(list) /\ (Len(page.data) = 0 => offset >= Len(list))
  BY <1>1, ReadFacts, PageFacts
<1>3. page.data = <<>> => Len(page.data) = 0
  OBVIOUS
<1> QED
  BY <1>1, <1>2, <1>3, ReadFacts DEF LastPage, NextOffset

LEMMA NextPageKeepsPager ==
  ASSUME PagerInv, NextPage
  PROVE  PagerInv'
<1>1. PageRead /\ ~ LastPage /\ listed' = "busy" /\ ~ PageValid' /\ page' = NoPage
  BY DEF NextPage, PageRead, Begin, PageValid
<1>2. PagerTypeOK'
  BY <1>1, ReadFacts, NoPageTyped DEF PagerInv, PagerTypeOK, PageRead
<1>3. NoneSkipped'
  <2>1. SUFFICES ASSUME shrunk = 0, NEW i \in 1..Len(before), ~ InSeq(before[i], all')
                 PROVE  Beyond(before[i], offset')
    BY <1>1, ReadFacts DEF NoneSkipped, Beyond
  <2> QED
    BY <1>1, <2>1, ReadFacts DEF PagerInv, NoneSkipped, NextOffset
<1>4. NoneAgain'
  <2>1. SUFFICES ASSUME grown = 0
                 PROVE  /\ NoRepeat(list) /\ NoRepeat(all')
                        /\ \A j \in 1..Len(list) : InSeq(list[j], all') => j <= offset'
    BY <1>1, ReadFacts DEF NoneAgain, NoRepeat, InSeq
  <2>2. /\ NoRepeat(list) /\ NoRepeat(all)
        /\ \A j \in 1..Len(list) : InSeq(list[j], all) => j <= offset
        /\ NoRepeat(page.data)
        /\ \A i \in 1..Len(page.data) : ~ InSeq(page.data[i], all)
        /\ \A j \in 1..Len(list) : InSeq(list[j], page.data) => j <= offset + Len(page.data)
    BY <1>1, <2>1, ReadFacts DEF PagerInv, NoneAgain, NextOffset
  <2>3. NoRepeat(all')
    BY <1>1, <2>2, ReadFacts, NoRepeatCat
  <2>4. \A j \in 1..Len(list) : InSeq(list[j], all') => j <= offset'
    BY <1>1, <2>2, ReadFacts
  <2> QED
    BY <2>2, <2>3, <2>4
<1>5. FromTheStart'
  <2>1. SUFFICES ASSUME grown = 0, shrunk = 0
                 PROVE  /\ list = before
                        /\ offset' = Len(all') /\ offset' <= Len(before)
                        /\ \A i \in 1..Len(all') : all'[i] = before[i]
    BY <1>1, ReadFacts DEF FromTheStart
  <2> QED
    BY <1>1, <2>1, StartFacts
<1>6. NothingMissed' /\ NothingTwice' /\ ExactAtRest'
  BY <1>1 DEF NothingMissed, NothingTwice, ExactAtRest
<1> QED
  BY <1>2, <1>3, <1>4, <1>5, <1>6 DEF PagerInv

LEMMA ListDoneKeepsPager ==
  ASSUME PagerInv, ListDone
  PROVE  PagerInv'
<1>1. PageRead /\ LastPage /\ listed' = "all" /\ page' = NoPage
  BY DEF ListDone, PageRead
<1>2. PagerTypeOK'
  BY <1>1, ReadFacts, NoPageTyped DEF PagerInv, PagerTypeOK, PageRead
<1>3. NoneSkipped' /\ NoneAgain' /\ FromTheStart'
  BY <1>1 DEF NoneSkipped, NoneAgain, FromTheStart
<1>4. NothingMissed'
  <2>1. SUFFICES ASSUME shrunk = 0, NEW i \in 1..Len(before)
                 PROVE  InSeq(before[i], all')
    <3>1. before' = before /\ shrunk' = shrunk
      BY <1>1, ReadFacts
    <3> QED
      BY <3>1 DEF NothingMissed, InSeq
  <2>2. InSeq(before[i], all) \/ InSeq(before[i], page.data)
    BY <1>1, <2>1, ReadFacts DEF PagerInv, NoneSkipped
  <2> QED
    BY <1>1, <2>2, ReadFacts
<1>5. NothingTwice'
  <2>1. SUFFICES ASSUME grown = 0 PROVE NoRepeat(all')
    BY <1>1, ReadFacts DEF NothingTwice, NoRepeat
  <2>2. NoRepeat(all) /\ NoRepeat(page.data) /\ \A i \in 1..Len(page.data) : ~ InSeq(page.data[i], all)
    BY <1>1, <2>1, ReadFacts DEF PagerInv, NoneAgain
  <2> QED
    BY <1>1, <2>2, ReadFacts, NoRepeatCat
<1>6. ExactAtRest'
  <2>1. SUFFICES ASSUME grown = 0, shrunk = 0 PROVE all' = before
    BY <1>1, ReadFacts DEF ExactAtRest
  <2>2. /\ list = before /\ offset' = Len(all') /\ offset' <= Len(before)
        /\ \A i \in 1..Len(all') : all'[i] = before[i]
    BY <1>1, <2>1, StartFacts
  <2>3. offset' >= Len(before)
    BY <1>1, <2>1, LastFacts
  <2>4. all' \in Seq(Entries) /\ before \in Seq(Entries) /\ Len(all') = Len(before)
    BY <1>1, <2>2, <2>3, ReadFacts
  <2> QED
    BY <2>2, <2>4
<1> QED
  BY <1>2, <1>3, <1>4, <1>5, <1>6 DEF PagerInv

LEMMA OthersKeepPager ==
  ASSUME CallInv, PagerInv, ListFails \/ OtherCall
  PROVE  PagerInv'
<1>1. listed' \in {"failed", "none"} /\ page' = NoPage /\ all' = <<>> /\ offset' = 0
  BY DEF ListFails, OtherCall
<1>2. <<>> \in Seq(Entries)
  OBVIOUS
<1>3. /\ list' \in Seq(Entries) /\ gone' \subseteq Entries /\ before' \in Seq(Entries)
      /\ grown' \in Nat /\ shrunk' \in Nat
  <2>1. CASE ListFails
    BY <2>1 DEF ListFails, changeVars, PagerInv, PagerTypeOK
  <2>2. CASE OtherCall
    BY <2>2, <1>2 DEF OtherCall
  <2> QED
    BY <2>1, <2>2
<1>4. PagerTypeOK'
  BY <1>1, <1>2, <1>3, NoPageTyped DEF PagerTypeOK
<1> QED
  BY <1>1, <1>4 DEF PagerInv, NoneSkipped, NoneAgain, FromTheStart, NothingMissed,
                    NothingTwice, ExactAtRest

-----------------------------------------------------------------------------
(* Changes of the list *)

LEMMA InsertKeepsPager ==
  ASSUME PagerInv, NEW e \in Entries, NEW k \in 1..Len(list) + 1, Insert(e, k)
  PROVE  PagerInv'
<1> DEFINE n == Len(list)
           new == [i \in 1..n + 1 |-> CASE i < k -> list[i] [] i = k -> e [] OTHER -> list[i - 1]]
<1>1. /\ list \in Seq(Entries) /\ n \in Nat /\ k \in 1..n + 1 /\ grown \in Nat
      /\ offset \in Nat /\ page.data \in Seq(Entries) /\ Len(page.data) \in Nat
  BY DEF PagerInv, PagerTypeOK, Pages
<1>2. /\ listed = "busy" /\ list' = new /\ grown' = grown + 1
      /\ UNCHANGED <<callVars, pagerVars, gone, shrunk>>
  BY DEF Insert, MayChange
<1>3. new \in [1..n + 1 -> Entries]
  <2>1. ASSUME NEW i \in 1..n + 1
        PROVE  (CASE i < k -> list[i] [] i = k -> e [] OTHER -> list[i - 1]) \in Entries
    <3>1. CASE i < k
      BY <2>1, <3>1, <1>1
    <3>2. CASE i = k
      BY <2>1, <3>2
    <3>3. CASE i > k
      <4>1. i - 1 \in 1..n /\ ~ (i < k) /\ i # k
        BY <2>1, <3>3, <1>1
      <4> QED
        BY <4>1, <1>1
    <3> QED
      BY <3>1, <3>2, <3>3, <1>1
  <2> QED
    BY <2>1
<1>4. new \in Seq(Entries) /\ Len(new) = n + 1
  BY <1>1, <1>3, TupleInSeq
\* What was in the list is still there, as far from the start or farther.
<1>5. ASSUME NEW j \in 1..n
      PROVE  \E i \in 1..n + 1 : i >= j /\ new[i] = list[j]
  <2>1. CASE j < k
    BY <2>1, <1>1, <1>5
  <2>2. CASE j >= k
    <3>1. j + 1 \in 1..n + 1 /\ ~ (j + 1 < k) /\ j + 1 # k /\ (j + 1) - 1 = j
      BY <2>2, <1>1, <1>5
    <3> QED
      BY <3>1, <1>1, <1>5
  <2> QED
    BY <2>1, <2>2, <1>1
<1> HIDE DEF new
<1>6. grown' # 0 /\ grown' \in Nat
  BY <1>1, <1>2
<1>7. PagerTypeOK'
  BY <1>2, <1>4, <1>6 DEF PagerInv, PagerTypeOK, pagerVars
<1>8. ASSUME NEW x, NEW m \in Nat, Beyond(x, m)
      PROVE  Beyond(x, m)'
  <2>1. PICK j \in 1..n : j > m /\ list[j] = x
    BY <1>8 DEF Beyond
  <2>2. PICK i \in 1..n + 1 : i >= j /\ new[i] = list[j]
    BY <1>5
  <2> QED
    BY <2>1, <2>2, <1>1, <1>2, <1>4 DEF Beyond
<1>9. NoneSkipped'
  <2>1. /\ UNCHANGED <<listed, offset, all, page, before, shrunk>>
        /\ PageValid' = PageValid /\ LastPage' = LastPage /\ NextOffset' = NextOffset
    BY <1>2 DEF pagerVars, callVars, PageValid, LastPage, NextOffset
  <2>2. NextOffset \in Nat
    BY <1>1 DEF NextOffset
  <2>3. SUFFICES ASSUME shrunk = 0, NEW i \in 1..Len(before)
                 PROVE  /\ InSeq(before[i], all) \/ Beyond(before[i], offset)'
                        /\ PageValid => \/ InSeq(before[i], all)
                                        \/ InSeq(before[i], page.data)
                                        \/ Beyond(before[i], NextOffset)' /\ ~ LastPage
    BY <2>1 DEF NoneSkipped, Beyond, InSeq
  <2>4. /\ InSeq(before[i], all) \/ Beyond(before[i], offset)
        /\ PageValid => \/ InSeq(before[i], all)
                        \/ InSeq(before[i], page.data)
                        \/ Beyond(before[i], NextOffset) /\ ~ LastPage
    BY <1>2, <2>3 DEF PagerInv, NoneSkipped
  <2>5. /\ Beyond(before[i], offset) => Beyond(before[i], offset)'
        /\ Beyond(before[i], NextOffset) => Beyond(before[i], NextOffset)'
    <3>1. before'[i] = before[i] /\ offset' = offset /\ NextOffset' = NextOffset
      BY <2>1
    <3> QED
      BY <3>1, <1>8, <1>1, <2>2 DEF Beyond
  <2> QED
    BY <2>4, <2>5
<1>10. NoneAgain' /\ FromTheStart'
  BY <1>6 DEF NoneAgain, FromTheStart
<1>11. NothingMissed' /\ NothingTwice' /\ ExactAtRest'
  BY <1>2 DEF NothingMissed, NothingTwice, ExactAtRest, pagerVars
<1> QED
  BY <1>7, <1>9, <1>10, <1>11 DEF PagerInv

LEMMA RemoveKeepsPager ==
  ASSUME PagerInv, NEW k \in 1..Len(list), Remove(k)
  PROVE  PagerInv'
<1> DEFINE n == Len(list)
           new == [i \in 1..n - 1 |-> IF i < k THEN list[i] ELSE list[i + 1]]
<1>1. /\ list \in Seq(Entries) /\ n \in Nat /\ k \in 1..n /\ n - 1 \in Nat /\ shrunk \in Nat
      /\ offset \in Nat
  BY DEF PagerInv, PagerTypeOK
<1>2. /\ listed = "busy" /\ list' = new /\ shrunk' = shrunk + 1
      /\ gone' = gone \cup {list[k]}
      /\ UNCHANGED <<callVars, pagerVars, grown>>
  BY DEF Remove, MayChange
<1>3. \A i \in 1..n - 1 : (i < k => i \in 1..n) /\ i + 1 \in 1..n
  BY <1>1
\* What is left in the list is as near to the start or nearer.
<1>4. \A i \in 1..n - 1 : new[i] = IF i < k THEN list[i] ELSE list[i + 1]
  OBVIOUS
<1>5. new \in [1..n - 1 -> Entries]
  BY <1>1, <1>3
<1>6. new \in Seq(Entries) /\ Len(new) = n - 1
  BY <1>1, <1>5, TupleInSeq
<1> HIDE DEF new
<1>7. shrunk' # 0 /\ shrunk' \in Nat
  BY <1>1, <1>2
<1>8. PagerTypeOK'
  BY <1>1, <1>2, <1>6, <1>7 DEF PagerInv, PagerTypeOK, pagerVars
<1>9. NoneAgain'
  <2>1. /\ UNCHANGED <<listed, offset, all, page, grown>>
        /\ PageValid' = PageValid /\ NextOffset' = NextOffset
    BY <1>2 DEF pagerVars, callVars, PageValid, NextOffset
  <2>2. SUFFICES ASSUME grown = 0
                 PROVE  /\ NoRepeat(new)
                        /\ \A j \in 1..n - 1 : InSeq(new[j], all) => j <= offset
                        /\ PageValid => \A j \in 1..n - 1 :
                             InSeq(new[j], page.data) => j <= NextOffset
    BY <1>2, <1>6, <2>1 DEF PagerInv, NoneAgain, NoRepeat, InSeq
  <2>3. /\ NoRepeat(list)
        /\ \A j \in 1..n : InSeq(list[j], all) => j <= offset
        /\ PageValid => \A j \in 1..n : InSeq(list[j], page.data) => j <= NextOffset
    BY <1>2, <2>2 DEF PagerInv, NoneAgain
  <2>4. NoRepeat(new)
    BY <2>3, <1>1, <1>3, <1>4, <1>6 DEF NoRepeat
  <2>5. \A j \in 1..n - 1 : InSeq(new[j], all) => j <= offset
    BY <2>3, <1>1, <1>3, <1>4
  <2>6. NextOffset \in Nat
    BY DEF NextOffset, PagerInv, PagerTypeOK, Pages
  <2>7. PageValid => \A j \in 1..n - 1 : InSeq(new[j], page.data) => j <= NextOffset
    BY <2>3, <2>6, <1>1, <1>3, <1>4
  <2> QED
    BY <2>4, <2>5, <2>7
<1>10. NoneSkipped' /\ FromTheStart'
  BY <1>7 DEF NoneSkipped, FromTheStart
<1>11. NothingMissed' /\ NothingTwice' /\ ExactAtRest'
  BY <1>2 DEF NothingMissed, NothingTwice, ExactAtRest, pagerVars
<1> QED
  BY <1>8, <1>9, <1>10, <1>11 DEF PagerInv

LEMMA PagerNext == CallInv /\ PagerInv /\ [Next]_vars => PagerInv'
<1> SUFFICES ASSUME CallInv, PagerInv, [Next]_vars PROVE PagerInv'
  OBVIOUS
<1>1. CASE ListBegin \/ NextPage \/ ListDone \/ ListFails \/ OtherCall
  BY <1>1, ListBeginKeepsPager, NextPageKeepsPager, ListDoneKeepsPager, OthersKeepPager
<1>2. CASE CallStep \/ ServePage
  BY <1>2, CallStepKeepsPager, ServeKeepsPager
<1>3. CASE \E e \in Entries, k \in 1..Len(list) + 1 : Insert(e, k)
  BY <1>3, InsertKeepsPager
<1>4. CASE \E k \in 1..Len(list) : Remove(k)
  BY <1>4, RemoveKeepsPager
<1>5. CASE UNCHANGED vars
  <2>1. UNCHANGED <<pagerVars, changeVars>> /\ PageValid' = PageValid
    BY <1>5 DEF vars, callVars, pagerVars, PageValid
  <2> QED
    BY <2>1, SameListing
<1> QED
  BY <1>1, <1>2, <1>3, <1>4, <1>5 DEF Next

(* Which entries have been read, and which are still ahead, at every moment *)
(* of a listing.                                                            *)
THEOREM ListingInvariant == Spec => []PagerInv
  BY PagerInit, PagerNext, CallsBounded, PTL DEF Spec

(* While nothing is removed, a listing misses no entry it began with. *)
THEOREM ListingMissesNothing == Spec => []NothingMissed
<1>1. PagerInv => NothingMissed
  BY DEF PagerInv
<1> QED
  BY <1>1, ListingInvariant, PTL

(* While nothing is inserted, a listing repeats no entry. *)
THEOREM ListingRepeatsNothing == Spec => []NothingTwice
<1>1. PagerInv => NothingTwice
  BY DEF PagerInv
<1> QED
  BY <1>1, ListingInvariant, PTL

(* A list at rest is read exactly, in any number of pages. *)
THEOREM ListingExact == Spec => []ExactAtRest
<1>1. PagerInv => ExactAtRest
  BY DEF PagerInv
<1> QED
  BY <1>1, ListingInvariant, PTL
=============================================================================
