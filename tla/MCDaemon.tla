------------------------------ MODULE MCDaemon ------------------------------
(***************************************************************************)
(* Daemon for TLC: the time claims callers of /sign send.                  *)
(***************************************************************************)
EXTENDS Daemon, TLC

MCExps == {Missing, 2}    \* the default lifetime, or an exp of their own: past at the end
MCIats == {Missing, 2}    \* the time of signing, or their own: future at first, then past
MCNbfs == {Missing, 4}    \* usable at once, or only later
NoTimes == {Missing}

\* The keys are told apart by nothing but their names.
AnyKey == Permutations(SignKeys)
=============================================================================
