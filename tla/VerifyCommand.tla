------------------------------ MODULE VerifyCommand ------------------------------
(***************************************************************************)
(* skfd verify (cli.py: _cmd_verify): one command runs the driver, checks  *)
(* coverage and calls each configured verifier that is installed on the    *)
(* file just written (verifier/__init__.py: verify).  A command can be     *)
(* killed between any two steps, after which the next one starts over      *)
(* among the files that were left.  The world may change between commands. *)
(***************************************************************************)
EXTENDS Driver

CONSTANTS
    Verifiers,
    Configs,        \* the lists of active verifiers a .skfd file may have
    MaxSessions     \* bound: commands, one after the other

ASSUME CommandAssumption == Configs \subseteq Seq(Verifiers) /\ MaxSessions \in Nat

VARIABLES
    active,     \* SkfdConfig.active_verifiers
    missing,    \* verifiers whose command does not exist
    asked,      \* how many of the active verifiers were dealt with
    verdicts,   \* of those that ran: what they read and how they ended
    outcome,    \* the exit status of the last command
    killed      \* history: the sessions that were killed

command == <<active, missing, asked, verdicts, outcome, killed>>
allVars == <<vars, command>>

CommandInit ==
    /\ Init
    /\ active \in Configs /\ missing \in SUBSET Verifiers
    /\ asked = 0 /\ verdicts = <<>> /\ outcome = "none"
    /\ killed = {}

End(status) == phase' = "ended" /\ outcome' = status
UnchangedDriver == UNCHANGED <<setting, resolution, plan, builds, files, written>>

DriverStep == RunDriver /\ UNCHANGED command

\* except Exception: return 1
DriverFailed ==
    /\ phase = "failed"
    /\ End("failure")
    /\ UnchangedDriver /\ UNCHANGED <<active, missing, asked, verdicts, killed>>

\* --coverage declared, and a declared label was not emitted
CoverageFails ==
    /\ phase = "emitted" /\ asked = 0
    /\ End("failure")
    /\ UnchangedDriver /\ UNCHANGED <<active, missing, asked, verdicts, killed>>

Asking == phase = "emitted" /\ asked < Len(active)
Verifier == active[asked + 1]

\* get_active_commands leaves out what cannot be run
SkipMissing ==
    /\ Asking /\ Verifier \in missing
    /\ asked' = asked + 1
    /\ UNCHANGED phase
    /\ UnchangedDriver /\ UNCHANGED <<active, missing, verdicts, outcome, killed>>

\* (variant: a verifier that does not answer in time is not counted)
Verdict_LateIgnored(end) == IF end = "timeout" THEN <<>> ELSE <<end>>
\* what becomes of the way a verifier ends: only exit status 0 passes
Verdict(end) == <<end>>

RunVerifier ==
    /\ Asking /\ Verifier \notin missing
    /\ \E end \in {"accepted", "rejected", "timeout"} :
          verdicts' = verdicts \o
              [n \in DOMAIN Verdict(end) |-> [verifier |-> Verifier, read |-> files[goal]["mm"], end |-> end]]
    /\ asked' = asked + 1
    /\ UNCHANGED phase
    /\ UnchangedDriver /\ UNCHANGED <<active, missing, outcome, killed>>

AllPassed == \A n \in DOMAIN verdicts : verdicts[n].end = "accepted"

Summarize ==
    /\ phase = "emitted" /\ asked = Len(active)
    /\ End(IF AllPassed THEN "success" ELSE "failure")
    /\ UnchangedDriver /\ UNCHANGED <<active, missing, asked, verdicts, killed>>

Kill ==
    /\ phase # "ended"
    /\ End("killed")
    /\ killed' = killed \cup {session}
    /\ UnchangedDriver /\ UNCHANGED <<active, missing, asked, verdicts>>

\* another command, after some work on the sources
NextCommand ==
    /\ phase = "ended" /\ session < MaxSessions
    /\ session' = session + 1
    /\ world' \in Worlds /\ goal' \in Packages
    /\ NewRunner
    /\ asked' = 0 /\ verdicts' = <<>> /\ outcome' = "none"
    /\ UNCHANGED <<files, active, missing, killed>>

Step ==
    \/ DriverStep \/ DriverFailed \/ CoverageFails
    \/ SkipMissing \/ RunVerifier \/ Summarize
Next == Step \/ Kill \/ NextCommand

\* One command is one thread that no call holds up for ever: dependencies are
\* finite, recursion is limited and verifiers have a timeout.  Kill and
\* NextCommand need never happen.
Spec == CommandInit /\ [][Next]_allVars /\ WF_allVars(Step)

-----------------------------------------------------------------------------
(* Properties *)

\* Success speaks of this command's link: all three files are of this session,
\* and what each verifier that ran accepted is that artifact, not one left by an
\* earlier command nor the empty file a failed link leaves.
SuccessIsFresh ==
    outcome = "success" =>
        /\ \A k \in Kinds : files[goal][k] = session
        /\ \A v \in ToSet(active) \ missing :
              \E n \in DOMAIN verdicts : verdicts[n] = [verifier |-> v, read |-> session, end |-> "accepted"]

\* An artifact and a source map beside it that are both complete come from one
\* link, unless a command was killed while it wrote them: no failure mixes them.
\* (doctor slice reads both, long after.)
MapFitsArtifact ==
    \A p \in Packages :
        LET mm == files[p]["mm"] IN
        mm > 0 /\ files[p]["map"] > 0 /\ mm # files[p]["map"] =>
            mm \in killed \/ (mm = session /\ phase = "linking")

\* Every command ends: no cycle of packages, declared or installed, keeps it in
\* the resolution.
Terminates == []<>(phase = "ended")
=============================================================================
