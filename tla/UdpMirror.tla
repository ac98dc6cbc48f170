----------------------------- MODULE UdpMirror -----------------------------
(***************************************************************************)
(* The main program of the UDP mirror: it becomes a daemon if it is told   *)
(* to, sets an instance up on each interface, registers its sorter entry   *)
(* with it, waits, and destroys the instances.  The instance of one        *)
(* interface is followed in InitZone, with its threads; what happens       *)
(* inside the others is a step.                                            *)
(***************************************************************************)
EXTENDS InitZone

CONSTANTS NumIfs,     \* interfaces on the command line
          Followed    \* the one whose instance is followed

ASSUME UdpMirrorAssumption == NumIfs \in Nat \ {0} /\ Followed \in 1 .. NumIfs

VARIABLES mpc,      \* where main is: of the child, once there is one
          ifno,     \* its i, from 1
          others,   \* the other interfaces that have an instance
          parent,   \* the process that forked: "none", "alive" or "gone"
          sighup,   \* "default" or "ignored"
          session   \* "inherited", or "own" after setsid

umVars == <<mpc, ifno, others, parent, sighup, session>>

UmInit == /\ IzInit
          /\ mpc = "start" /\ ifno = 1 /\ others = {}
          /\ parent = "none" /\ sighup = "default" /\ session = "inherited"

-----------------------------------------------------------------------------
(* udpm_daemon                                                             *)

Foreground == /\ mpc = "start" /\ mpc' = "init"
              /\ UNCHANGED <<ifno, others, parent, sighup, session>>

\* SIGHUP is ignored from here on, also by the child
IgnoreHup == /\ mpc = "start" /\ mpc' = "fork" /\ sighup' = "ignored"
             /\ UNCHANGED <<ifno, others, parent, session>>

Fork == /\ mpc = "fork" /\ mpc' = "setsid" /\ parent' = "alive"
        /\ UNCHANGED <<ifno, others, sighup, session>>

\* Returns -1 with SIGHUP ignored; main does not look at the result
ForkFails == /\ mpc = "fork" /\ mpc' = "init"
             /\ UNCHANGED <<ifno, others, parent, sighup, session>>

\* (faulty: the handler is restored before the child has left the session)
SetSidLate == /\ mpc = "setsid" /\ mpc' = "sighup" /\ sighup' = "default"
              /\ UNCHANGED <<ifno, others, parent, session>>

SetSid == /\ mpc = "setsid" /\ mpc' = "sighup" /\ session' = "own"
          /\ UNCHANGED <<ifno, others, parent, sighup>>

\* (faulty: the handler stays as it is)
KeepHup == /\ mpc = "sighup" /\ mpc' = "init"
           /\ UNCHANGED <<ifno, others, parent, sighup, session>>

RestoreHup == /\ mpc = "sighup" /\ mpc' = "init" /\ sighup' = "default"
              /\ UNCHANGED <<ifno, others, parent, session>>

\* _exit of the parent may throw a SIGHUP at its session
ParentExits ==
    /\ parent = "alive" /\ parent' = "gone"
    /\ mpc' \in {mpc} \cup IF session = "inherited" /\ sighup = "default" THEN {"killed"} ELSE {}
    /\ UNCHANGED <<ifno, others, sighup, session>>

\* Bound: the parent is gone when the child leaves udpm_daemon.  From its
\* setsid on the child is out of its reach.
Daemon == \/ Foreground \/ IgnoreHup \/ Fork \/ ForkFails \/ SetSid
          \/ parent = "gone" /\ RestoreHup
          \/ ParentExits

-----------------------------------------------------------------------------
(* main                                                                    *)

Goto(p) == mpc' = p /\ UNCHANGED <<ifno, parent, sighup, session>>

\* sin_init of interface ifno; errx if it fails
InitIf ==
    /\ mpc = "init"
    /\ \/ /\ ifno # Followed /\ UNCHANGED izVars
          /\ \/ Goto("reg") /\ others' = others \cup {ifno}
             \/ Goto("errx") /\ UNCHANGED others
       \/ /\ ifno = Followed /\ Caller /\ UNCHANGED <<swVars, others>>
          /\ Goto(IF pc' = "run" THEN "reg" ELSE IF pc' = "done" THEN "errx" ELSE "init")

\* sin_sorter_reg, and on to the next interface or to the wait; errx if it fails
RegIf ==
    /\ mpc = "reg"
    /\ \/ ifno < NumIfs /\ ifno' = ifno + 1 /\ mpc' = "init"
       \/ ifno = NumIfs /\ ifno' = ifno /\ mpc' = "wait"
       \/ ifno' = ifno /\ mpc' = "errx"
    /\ UNCHANGED <<izVars, others, parent, sighup, session>>

\* (faulty: the loop starts with the second interface)
WakeUpSecond == /\ mpc = "wait" /\ mpc' = "destroy" /\ ifno' = 2
                /\ UNCHANGED <<izVars, others, parent, sighup, session>>

\* sleep returns.  Without -t main stays in sigsuspend: it has no handler, so
\* a signal ends the process.
WakeUp == /\ mpc = "wait" /\ mpc' = "destroy" /\ ifno' = 1
          /\ UNCHANGED <<izVars, others, parent, sighup, session>>

\* sin_destroy of interface ifno
DestroyIf ==
    /\ mpc = "destroy" /\ ifno <= NumIfs
    /\ \/ /\ ifno # Followed /\ others' = others \ {ifno} /\ ifno' = ifno + 1
          /\ UNCHANGED izVars
       \/ /\ ifno = Followed /\ Caller /\ UNCHANGED <<swVars, others>>
          /\ ifno' = IF pc' = "done" THEN ifno + 1 ELSE ifno
    /\ UNCHANGED <<mpc, parent, sighup, session>>

Exit == /\ mpc = "destroy" /\ ifno = NumIfs + 1
        /\ Goto("exit") /\ UNCHANGED <<izVars, others>>

\* The end of the process is the end of its threads; so is a crash
Running == mpc \notin {"errx", "exit", "killed"} /\ zpc # "crashed"

UmNext == Running /\ \/ Daemon /\ UNCHANGED izVars
                     \/ InitIf \/ RegIf \/ WakeUp \/ DestroyIf \/ Exit
                     \/ Threads /\ UNCHANGED umVars

UmSpec == UmInit /\ [][UmNext]_<<umVars, izVars>>

-----------------------------------------------------------------------------
(* Properties                                                              *)

\* udpm_daemon ignores SIGHUP for a while.  The SIGHUP that the exit of the
\* parent may throw never ends the child, whichever of the two is faster; and
\* the program runs on with the handling it was started with, so that a hangup
\* of its terminal ends it, unless the fork failed: then it stays in the
\* foreground and ignores hangups.
HangupUnharmed ==
    /\ mpc # "killed"
    /\ mpc \in {"init", "reg", "wait", "destroy"} =>
          (sighup = "ignored" => parent = "none" /\ session = "inherited")

\* When the program is through, every instance has been destroyed, and an
\* instance is only destroyed that is up: the loops of main cover the same
\* interfaces.
NoInstanceLeft ==
    /\ mpc = "exit" => others = {} /\ pc = "done"
    /\ mpc = "destroy" /\ ifno <= NumIfs /\ ifno # Followed => ifno \in others
=============================================================================
