---------------------------- MODULE TerminalStream ----------------------------
(***************************************************************************)
(* What a terminal promises its viewers (shell.rs 25-27: "the client can   *)
(* detect gaps and resume ... without duplication or loss"): the shell     *)
(* produces bytes 0, 1, 2, ... and every tab shows a prefix of them, which *)
(* only grows, whatever sockets come and go in between.                    *)
(***************************************************************************)
EXTENDS Integers, Sequences

CONSTANT Tabs

VARIABLES
  produced, \* bytes the shell has written so far
  screen    \* the bytes each tab shows

streamVars == <<produced, screen>>

Prefix(k) == [i \in 1..k |-> i - 1]

StreamInit ==
  /\ produced = 0
  /\ screen = [t \in Tabs |-> <<>>]

Produce ==
  /\ produced' > produced
  /\ UNCHANGED screen

Show(t) ==
  /\ \E k \in (Len(screen[t]) + 1)..produced :
       screen' = [screen EXCEPT ![t] = Prefix(k)]
  /\ UNCHANGED produced

StreamNext == Produce \/ \E t \in Tabs : Show(t)

StreamSpec == StreamInit /\ [][StreamNext]_streamVars
=============================================================================
