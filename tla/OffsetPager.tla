----------------------------- MODULE OffsetPager -----------------------------
(***************************************************************************)
(* ListUsers, ListGroups, GroupMemberships and UserGroups of               *)
(* internal/outline/client.go: one loop that asks for page after page by   *)
(* offset.  Every page is a call as RpcClient has it, and a reply shows    *)
(* the list of the moment Outline serves it; between two pages, and while  *)
(* a call is delayed or sent again, others insert and remove entries.      *)
(***************************************************************************)
EXTENDS RpcClient, Sequences

CONSTANTS
  Entries,      \* what may be in the list, each at most once
  Limit,        \* how many entries Outline puts on a page
  InitialLists, \* the lists there may be when a listing begins
  MaxChanges    \* bound on the entries inserted and removed during one

ASSUME ListsAssumption ==
  /\ Limit \in Nat \ {0} /\ MaxChanges \in Nat
  /\ InitialLists \subseteq Seq(Entries)
  /\ \A l \in InitialLists : \A i, j \in 1..Len(l) : l[i] = l[j] => i = j

VARIABLES
  list,         \* the list that is read, as Outline has it
  gone,         \* the entries that were removed: ids are never used twice
  listed,       \* "none", "busy", "all" or "failed": how far the last listing is
  offset, all,  \* the locals of the loop
  page,         \* the body of the reply on its way or just accepted
  before,       \* history: the list when the listing began
  grown,        \* history: how many entries were inserted since
  shrunk        \* history: how many were removed since

pagerVars == <<listed, offset, all, page, before>>
changeVars == <<list, gone, grown, shrunk>>
vars == <<callVars, pagerVars, changeVars>>

Pages == [data : Seq(Entries), total : Nat]

NoPage == [data |-> <<>>, total |-> 0]

NoRepeat(s) == \A i, j \in 1..Len(s) : s[i] = s[j] => i = j
InSeq(e, s) == \E i \in 1..Len(s) : s[i] = e

PagerTypeOK ==
  /\ list \in Seq(Entries) /\ gone \subseteq Entries
  /\ listed \in {"none", "busy", "all", "failed"}
  /\ offset \in Nat /\ all \in Seq(Entries)
  /\ page \in Pages
  /\ before \in Seq(Entries)
  /\ grown \in Nat /\ shrunk \in Nat

Init ==
  /\ CallInit
  /\ list = <<>> /\ gone = {}
  /\ listed = "none" /\ offset = 0 /\ all = <<>>
  /\ page = NoPage
  /\ before = <<>> /\ grown = 0 /\ shrunk = 0

-----------------------------------------------------------------------------
(* The loop *)

(* Of all users, all groups, the members of a group or the groups of a user.*)
ListBegin ==
  /\ listed # "busy" /\ Begin(TRUE)
  /\ listed' = "busy" /\ offset' = 0 /\ all' = <<>> /\ page' = NoPage
  /\ list' \in InitialLists /\ before' = list'
  /\ gone' = {} /\ grown' = 0 /\ shrunk' = 0

PageAt(k) ==
  LET size == IF k >= Len(list) THEN 0
              ELSE IF Len(list) - k < Limit THEN Len(list) - k ELSE Limit
  IN [data |-> [i \in 1..size |-> list[k + i]], total |-> Len(list)]

\* A mutant of NextOffset: the last entry of a page is asked for again.
NextOffsetShort == offset + Len(page.data) - 1

NextOffset == offset + Len(page.data)

\* A mutant of LastPage: one page is taken for the whole list.
LastPageAlways == TRUE

\* A mutant of LastPage: the total is off by one.
LastPageEarly == page.data = <<>> \/ NextOffset >= page.total - 1

LastPage == page.data = <<>> \/ NextOffset >= page.total

\* The reply to a page has been accepted.
PageRead ==
  /\ listed = "busy" /\ pc = "idle" /\ outcome = "ok"
  /\ all' = all \o page.data
  /\ offset' = NextOffset
  /\ page' = NoPage
  /\ UNCHANGED <<before, changeVars>>

NextPage ==
  /\ PageRead /\ ~ LastPage
  /\ Begin(TRUE) /\ cancelled' = cancelled
  /\ UNCHANGED listed

ListDone ==
  /\ PageRead /\ LastPage
  /\ listed' = "all" /\ UNCHANGED callVars

ListFails ==
  /\ listed = "busy" /\ pc = "idle" /\ outcome \in {"error", "notFound"}
  /\ listed' = "failed" /\ offset' = 0 /\ all' = <<>> /\ page' = NoPage
  /\ UNCHANGED <<callVars, before, changeVars>>

-----------------------------------------------------------------------------
(* Everything else *)

ServePage ==
  /\ Serve
  /\ page' = IF listed = "busy" THEN PageAt(offset) ELSE page
  /\ UNCHANGED <<listed, offset, all, before, changeVars>>

(* A call that is no listing. *)
OtherCall ==
  /\ listed # "busy"
  /\ \E body \in BOOLEAN : Begin(body)
  /\ listed' = "none" /\ offset' = 0 /\ all' = <<>> /\ page' = NoPage
  /\ list' = <<>> /\ before' = <<>>
  /\ gone' = {} /\ grown' = 0 /\ shrunk' = 0

(* Changes matter while a listing is under way only. *)
MayChange == listed = "busy" /\ grown + shrunk < MaxChanges

Insert(e, k) ==
  /\ MayChange
  /\ e \notin gone /\ ~ InSeq(e, list) /\ k \in 1..Len(list) + 1
  /\ list' = [i \in 1..Len(list) + 1 |-> CASE i < k -> list[i]
                                           [] i = k -> e
                                           [] OTHER -> list[i - 1]]
  /\ grown' = grown + 1
  /\ UNCHANGED <<callVars, pagerVars, gone, shrunk>>

Remove(k) ==
  /\ MayChange
  /\ k \in 1..Len(list)
  /\ list' = [i \in 1..Len(list) - 1 |-> IF i < k THEN list[i] ELSE list[i + 1]]
  /\ gone' = gone \cup {list[k]}
  /\ shrunk' = shrunk + 1
  /\ UNCHANGED <<callVars, pagerVars, grown>>

CallStep == (Post \/ Lose \/ Cancel \/ Tick) /\ UNCHANGED <<pagerVars, changeVars>>

Next ==
  \/ ListBegin \/ NextPage \/ ListDone \/ ListFails
  \/ CallStep \/ ServePage \/ OtherCall
  \/ \E e \in Entries, k \in 1..Len(list) + 1 : Insert(e, k)
  \/ \E k \in 1..Len(list) : Remove(k)

(* Time passes, and the caller goes on whenever it can: Do returns at the   *)
(* latest when its time limit or the context ends (client.go:64), and       *)
(* time.After fires (client.go:105).  Outline need not answer.              *)
Fairness ==
  /\ WF_vars(Tick /\ UNCHANGED <<pagerVars, changeVars>>)
  /\ WF_vars(/\ Send \/ Retry \/ Accept \/ Resume \/ GiveUp
             /\ UNCHANGED <<pagerVars, changeVars>>)
  /\ WF_vars(NextPage \/ ListDone \/ ListFails)

Spec == Init /\ [][Next]_vars
FairSpec == Spec /\ Fairness

-----------------------------------------------------------------------------
(* Properties *)

(* While nothing is removed, a listing misses no entry that was there when  *)
(* it began, whatever is inserted where (client.go:374-399: recomputeRole   *)
(* derives the role from all the groups of a user).                         *)
NothingMissed ==
  listed = "all" /\ shrunk = 0 => \A i \in 1..Len(before) : InSeq(before[i], all)

(* While nothing is inserted, a listing shows no entry twice. *)
NothingTwice == listed = "all" /\ grown = 0 => NoRepeat(all)

(* On a list at rest, any number of pages, retries and delays is as good as *)
(* one read: what ScimGroups takes a read for.                              *)
ExactAtRest == listed = "all" /\ grown = 0 /\ shrunk = 0 => all = before

(* The page that was asked for has been served, and nothing has replaced it.*)
PageValid == listed = "busy" /\ (wire = "reply" \/ (pc = "idle" /\ outcome = "ok"))

Beyond(e, k) == \E j \in 1..Len(list) : j > k /\ list[j] = e

(* What makes the three inductive: what was there at first is read already  *)
(* or still beyond the offset; what was read lies before the offset; a list *)
(* at rest is read from its beginning.                                      *)
NoneSkipped ==
  listed = "busy" /\ shrunk = 0 =>
    \A i \in 1..Len(before) :
      /\ InSeq(before[i], all) \/ Beyond(before[i], offset)
      /\ PageValid => \/ InSeq(before[i], all)
                      \/ InSeq(before[i], page.data)
                      \/ Beyond(before[i], NextOffset) /\ ~ LastPage

NoneAgain ==
  listed = "busy" /\ grown = 0 =>
    /\ NoRepeat(list) /\ NoRepeat(all)
    /\ \A j \in 1..Len(list) : InSeq(list[j], all) => j <= offset
    /\ PageValid =>
         /\ NoRepeat(page.data)
         /\ \A i \in 1..Len(page.data) : ~ InSeq(page.data[i], all)
         /\ \A j \in 1..Len(list) : InSeq(list[j], page.data) => j <= NextOffset

FromTheStart ==
  listed = "busy" /\ grown = 0 /\ shrunk = 0 =>
    /\ list = before
    /\ offset = Len(all) /\ offset <= Len(before)
    /\ \A i \in 1..Len(all) : all[i] = before[i]
    /\ PageValid => page = PageAt(offset)

PagerInv ==
  /\ PagerTypeOK
  /\ NoneSkipped /\ NoneAgain /\ FromTheStart
  /\ NothingMissed /\ NothingTwice /\ ExactAtRest

(* Every call and every listing ends, though Outline may never answer, may  *)
(* limit the rate of every call, and the list may change between any two    *)
(* pages (client.go:20-23).                                                 *)
CallReturns == (listed = "busy" \/ pc # "idle") ~> (listed # "busy" /\ pc = "idle")
=============================================================================
