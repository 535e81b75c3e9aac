------------------------------ MODULE MCToolTurn ------------------------------
(* Instances of ToolTurn for TLC.                                            *)
EXTENDS ToolTurn

\* A gated and a plain call, one parallel and one serial, and a question.
MixedKinds == {"fetch", "write", "ask"}

\* Two processes on the database, and processes that die.
RaceEnv == {"fault", "expire", "recover", "again", "remote", "crash"}

\* One process that stays up, and records that are decided once.
LocalEnv == {"fault", "interrupt", "expire", "recover"}

=============================================================================
