----------------------------- MODULE MCFollowUps -----------------------------
(* A small instance of FollowUps for TLC.                                   *)
EXTENDS FollowUps

CONSTANTS mail, junk

PleaseSend == Sentence({"request"}, {Relative("today")})
Cannot == Sentence({"promise", "negated"}, {Relative("tomorrow")})
WeWill == Sentence({"promise"}, {DayMonth(31, 12), OnWeekday(4)})

Texts == (mail :> {PleaseSend, Cannot}) @@ (junk :> {WeWill})
Replies == (mail :> {WeWill, PleaseSend}) @@ (junk :> {})
Starts == {DayOf(2026, 12, 31)}
=============================================================================
