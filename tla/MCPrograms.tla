----------------------------- MODULE MCPrograms -----------------------------
(***************************************************************************)
(* The four programs with a process of their own, each from its start to   *)
(* its end: the asynchronous server's main, the synchronous server, the    *)
(* server of the demo protocol and the verifier.  They share nothing, so   *)
(* one of them runs in a behaviour and the others are off.                 *)
(***************************************************************************)
EXTENDS AsyncApp, SyncApp, DemoServer, Verifier

Frame(body) == <<"SOH", "Q", "STX">> \o body \o <<"ETX", "x", "EOT">>

\* Well-formed frames; frames behind a broken one; a frame that never ends well.
MCWires ==
    { Frame(<<"x">>) \o Frame(<<"y">>) \o Frame(<< >>),
      <<"SOH", "x">> \o Frame(<<"y">>),
      <<"SOH", "SOH", "Q">> \o Frame(<<"y">>),
      <<"SOH", "Q", "STX", "x", "STX">> \o Frame(<<"y">>),
      <<"SOH", "Q", "STX", "x", "EOT">> }

\* One program is on; what the others would choose at their start is fixed.
Init ==
    /\ AppInit /\ SyncAppInit /\ DemoInit /\ VerifierInit
    /\ \/ process = "start" /\ sstatus = "off" /\ server = "off" /\ outcome = "off"
       \/ process = "off" /\ sstatus = "running" /\ server = "off" /\ outcome = "off"
       \/ process = "off" /\ sstatus = "off" /\ server = "new" /\ outcome = "off"
       \/ process = "off" /\ sstatus = "off" /\ server = "off" /\ outcome = "running"
    /\ process = "off" => build = "single"
    /\ sstatus = "off" => sbuild = "queue"
    /\ server = "off" => wire = Frame(<<"x">>) \o Frame(<<"y">>) \o Frame(<< >>)
    /\ outcome = "off" => listens = {}

Next ==
    \/ AppNext /\ UNCHANGED <<syncVars, demoVars, verifierVars>>
    \/ SyncAppNext /\ UNCHANGED <<appVars, demoVars, verifierVars>>
    \/ DemoNext /\ UNCHANGED <<appVars, syncVars, verifierVars>>
    \/ VerifierNext /\ UNCHANGED <<appVars, syncVars, demoVars>>

Spec ==
    /\ Init
    /\ [][Next]_<<appVars, syncVars, demoVars, verifierVars>>
    /\ AppFairness /\ SyncAppFairness /\ DemoFairness /\ VerifierFairness
=============================================================================
