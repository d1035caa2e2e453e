----------------------------- MODULE MCResolver -----------------------------
(* A domain with one address and its catch-all, and the files an           *)
(* administrator may write for them.                                       *)
EXTENDS Resolver

MCAddress == {"me", "star"}
MCCatchAll == [a \in MCAddress |-> "star"]

MCActing == {{"daemon"}, {"tool"}}

Contents1(entries, end, unfinished, headed) ==
  [entries |-> entries, end |-> end, unfinished |-> unfinished, headed |-> headed]

Me == [address |-> "me", forward |-> FALSE]
MeForward == [address |-> "me", forward |-> TRUE]
Star == [address |-> "star", forward |-> FALSE]

MCContents == {Contents1(<<Me>>, "whole", FALSE, FALSE),
               Contents1(<<MeForward, Star>>, "whole", FALSE, TRUE),
               Contents1(<<Star>>, "keyword", TRUE, FALSE),
               Contents1(<<>>, "quoted", FALSE, FALSE),
               Contents1(<<Me>>, "comment", FALSE, FALSE)}
=============================================================================
