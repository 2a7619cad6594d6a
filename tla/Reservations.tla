---------------------------- MODULE Reservations ----------------------------
(***************************************************************************)
(* The CPU reservations of the runtimes of one machine (Medusa), with the  *)
(* invariants that hold of them in either build.                           *)
(***************************************************************************)
EXTENDS Integers

CONSTANTS
    Runtimes, NoRuntime, Workers, Partitioning, Orderly, MaxCalls, MaxFaults,
    MaxRestarts

VARIABLES
    daemon, dirs, cwd, at, conn, requests, output,
    answers,   \* what the daemon has sent and the runtime has not read
    mode, seq, pending, call, told, calls, faults, restarts

medusaVars == <<daemon, dirs, cwd, at, conn, requests, output, answers, mode,
                seq, pending, call, told, calls, faults, restarts>>

M == INSTANCE Medusa WITH replies <- answers

-----------------------------------------------------------------------------
(***************************************************************************)
(* A closed runtime leaves nothing behind, even when runtimes crash and the *)
(* daemon is restarted (MedusadCore::onCloseHandle, CPUCgroup).            *)
(***************************************************************************)
Reserved == M!TypeOK /\ M!CleanedUp

(***************************************************************************)
(* An answer finds the future of the thread that waits for it              *)
(* (MedusaClientHandler::handlePacket).                                    *)
(***************************************************************************)
AnswersFindTheirCaller == M!AnswersFindTheirCaller
=============================================================================
