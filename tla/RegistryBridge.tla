--------------------------- MODULE RegistryBridge ---------------------------
(***************************************************************************)
(* What the registration protocol promises, as a three-state machine:     *)
(* fragments submitted before a registrar is attached are queued, the     *)
(* attach hands the queue over in arrival order, and from then on every   *)
(* submitted fragment goes straight to the registrar.                      *)
(*                                                                         *)
(* This is the abstract specification.  ImplementorsPage models what the  *)
(* scripts of the page do with the two slots of `window`, and is checked  *)
(* against this module under a refinement mapping.                         *)
(***************************************************************************)
EXTENDS Sequences

CONSTANTS
    PartialIndexes,  \* what a fragment can submit
    Registrars,      \* who can attach
    Undefined        \* no registrar

VARIABLES
    state,      \* "Empty", "Buffering" or "Active"
    queue,      \* the fragments waiting for a registrar, oldest first
    registrar,  \* the attached registrar, Undefined before the attach
    sink        \* everything the registrar was given, in the order given

bridgeVars == <<state, queue, registrar, sink>>

BridgeTypeOK ==
    /\ state \in {"Empty", "Buffering", "Active"}
    /\ queue \in Seq(PartialIndexes)
    /\ registrar \in Registrars \cup {Undefined}
    /\ sink \in Seq(PartialIndexes)

Init ==
    /\ state = "Empty"
    /\ queue = <<>>
    /\ registrar = Undefined
    /\ sink = <<>>

\* submit(fragment): queued while no registrar is attached, forwarded at
\* once when one is.
Submit(p) ==
    \/ /\ state \in {"Empty", "Buffering"}
       /\ state' = "Buffering"
       /\ queue' = Append(queue, p)
       /\ UNCHANGED <<registrar, sink>>
    \/ /\ state = "Active"
       /\ sink' = Append(sink, p)
       /\ UNCHANGED <<state, queue, registrar>>

(***************************************************************************)
(* attach(registrar): the queue is drained to the registrar in arrival    *)
(* order and the bridge is Active for good.                                *)
(***************************************************************************)
Attach(r) ==
    /\ state # "Active"
    /\ state' = "Active"
    /\ registrar' = r
    /\ sink' = sink \o queue
    /\ queue' = <<>>

(***************************************************************************)
(* attach(registrar) on an Active bridge is the implementer's choice:     *)
(* rejected, which changes nothing here, or the registrar is replaced.    *)
(* Either way nothing is delivered again and nothing is queued.           *)
(***************************************************************************)
Replace(r) ==
    /\ state = "Active"
    /\ registrar' = r
    /\ UNCHANGED <<state, queue, sink>>

Next ==
    \/ \E p \in PartialIndexes : Submit(p)
    \/ \E r \in Registrars : Attach(r) \/ Replace(r)

Spec == Init /\ [][Next]_bridgeVars

=============================================================================
