--------------------------- MODULE DurableRegister ---------------------------
(***************************************************************************)
(* What the chunk store promises of the commits of one file, whoever makes  *)
(* them and whatever cuts them off: the state that opening the file finds   *)
(* is that of the last acknowledged commit or of one tried after it.  A     *)
(* file can be damaged; nothing is promised of what a damaged file yields,  *)
(* nor that it is ever repaired.                                            *)
(***************************************************************************)
EXTENDS Naturals

VARIABLES
  tried,   \* number of the last commit that was started
  acked,   \* number of the last commit that was acknowledged
  value,   \* number of the commit that opening the file finds, 0 for none
  damaged  \* the file no longer holds what was written to it in order

regVars == <<tried, acked, value, damaged>>

Try ==
  /\ tried' = tried + 1
  /\ UNCHANGED <<acked, value, damaged>>

\* A commit takes effect, is taken back or is lost; or the file is damaged.
Settle ==
  /\ damaged' \in BOOLEAN
  /\ value' \in 0..tried
  /\ damaged' \/ value' >= acked
  /\ UNCHANGED <<tried, acked>>

Acknowledge ==
  /\ damaged \/ value = tried
  /\ acked' = tried
  /\ UNCHANGED <<tried, value, damaged>>

RegInit == tried = 0 /\ acked = 0 /\ value = 0 /\ damaged = FALSE

RegNext == Try \/ Settle \/ Acknowledge

RegSpec == RegInit /\ [][RegNext]_regVars

=============================================================================
