---------------------------- MODULE MCOffsetPager ----------------------------
(***************************************************************************)
(* A small instance of OffsetPager: two entries to a page, three at first, *)
(* a fourth that may come, so that a listing has up to three pages.        *)
(***************************************************************************)
EXTENDS OffsetPager

MCInitialLists == {<<>>, <<"a", "b", "c">>}
=============================================================================
