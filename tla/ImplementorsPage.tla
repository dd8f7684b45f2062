-------------------------- MODULE ImplementorsPage --------------------------
(***************************************************************************)
(* The scripts of a generated documentation page and the slots of         *)
(* `window` through which they meet.                                       *)
(*                                                                         *)
(*   crates.js         sets window.ALL_CRATES;                             *)
(*   trait.<T>.js      a fragment: builds its `implementors` object and    *)
(*                     hands it to window.register_implementors if that    *)
(*                     is set, else leaves it in                           *)
(*                     window.pending_implementors;                        *)
(*   the registrar     the page's renderer: sets                           *)
(*                     window.register_implementors and takes what is      *)
(*                     pending; it drops a malformed fragment and answers  *)
(*                     a second attach by its policy.  Its code is not     *)
(*                     part of the repository; it is modelled from the     *)
(*                     written specification.                              *)
(*                                                                         *)
(* The page is single threaded: a script runs to its end before the next  *)
(* starts, so each script is one action.  The order in which the scripts  *)
(* run is the browser's choice, and is what the model explores.           *)
(***************************************************************************)
EXTENDS Implementors

CONSTANTS
    Fragments,     \* the fragment scripts the page may load
    Statements,    \* Statements[f]: the assignments of fragment f, in order
    Registrars,    \* the renderers that may try to attach
    AllCrates,     \* the list crates.js assigns
    Malformed,     \* the values of a module key that are not a record list
    SecondAttach,  \* the registrar's policy: "reject" or "overwrite"
    MaxRuns,       \* bound: fragment runs of a page, all fragments together
    MaxEarly,      \* bound: fragment runs before a registrar is attached
    Undefined      \* the value of a slot of window nothing was assigned to

Objects == {Build(Statements[f]) : f \in Fragments}

ASSUME /\ MaxRuns \in Nat \ {0}
       /\ MaxEarly \in 0..MaxRuns
       /\ SecondAttach \in {"reject", "overwrite"}
       /\ \A f, g \in Fragments :
            Build(Statements[f]) = Build(Statements[g]) => f = g

VARIABLES
    ALL_CRATES,             \* window.ALL_CRATES
    register_implementors,  \* window.register_implementors
    pending_implementors,   \* window.pending_implementors
    display,                \* the registrar's display model: an object
    dropped,                \* the fragments the registrar dropped and reported
    reported,               \* the registrars whose second attach was reported
    submitted,              \* history: the object of every fragment run
    delivered               \* history: the objects the registrar was given

\* The two slots of window a fragment and the registrar meet through.
slots == <<register_implementors, pending_implementors>>
ingested == <<display, dropped, delivered>>  \* what an ingest may change
vars == <<ALL_CRATES, slots, ingested, reported, submitted>>

Init ==
    /\ ALL_CRATES = Undefined
    /\ register_implementors = Undefined
    /\ pending_implementors = Undefined
    /\ display = EmptyObject
    /\ dropped = {}
    /\ reported = {}
    /\ submitted = <<>>
    /\ delivered = <<>>

-----------------------------------------------------------------------------
\* crates.js: window.ALL_CRATES = [...].
LoadCrates ==
    /\ ALL_CRATES' = AllCrates
    /\ UNCHANGED <<slots, ingested, reported, submitted>>

\* A fragment is well formed when every module key holds a record list.
WellFormed(obj) == \A i \in DOMAIN obj : obj[i][2] \notin Malformed

\* Faulty ingest: the modules are merged one by one and the merge stops at
\* the first that is malformed, leaving the ones before it on display.
IngestMergesUntilMalformed(obj) ==
    LET bad == {i \in DOMAIN obj : obj[i][2] \in Malformed} IN
    /\ delivered' = Append(delivered, obj)
    /\ display' = Merge(display, SubSeq(obj, 1, Min(bad \cup {Len(obj) + 1}) - 1))
    /\ dropped' = IF bad = {} THEN dropped ELSE dropped \cup {obj}

(***************************************************************************)
(* The registrar is given one object.  A well-formed one is merged into   *)
(* the display model; a malformed one is dropped whole and reported, and  *)
(* the registrar goes on with what comes next.  The written specification *)
(* asks for the drop and leaves open how it is done: checking the whole   *)
(* object before merging any of it is this model's reading.  Of the two   *)
(* kinds of malformed fragment it names, only a module entry that is not  *)
(* a record list can be told from the object; a missing capability id     *)
(* cannot, since no object carries one.                                    *)
(***************************************************************************)
Ingest(obj) ==
    /\ delivered' = Append(delivered, obj)
    /\ \/ /\ WellFormed(obj)
          /\ display' = Merge(display, obj)
          /\ UNCHANGED dropped
       \/ /\ ~WellFormed(obj)
          /\ dropped' = dropped \cup {obj}
          /\ UNCHANGED display

\* Faulty last line of a fragment: the test of register_implementors is
\* missing and the object is always left pending.
SubmitAlwaysPending(implementors) ==
    /\ pending_implementors' = implementors
    /\ UNCHANGED ingested

\* Faulty last line of a fragment: the else branch is missing, and an
\* object that finds no registrar is dropped.
SubmitWithoutElse(implementors) ==
    /\ IF register_implementors # Undefined
       THEN Ingest(implementors)
       ELSE UNCHANGED ingested
    /\ UNCHANGED pending_implementors

\* Faulty last line of a fragment: an object that is already pending is
\* not overwritten (the first fragment wins, not the last).
SubmitKeepsFirstPending(implementors) ==
    \/ /\ register_implementors # Undefined
       /\ Ingest(implementors)
       /\ UNCHANGED pending_implementors
    \/ /\ register_implementors = Undefined
       /\ pending_implementors' =
            IF pending_implementors = Undefined
            THEN implementors ELSE pending_implementors
       /\ UNCHANGED ingested

\* Faulty last line of a fragment: a registrar is called, and the object is
\* left pending as well.
SubmitAndKeepPending(implementors) ==
    /\ pending_implementors' = implementors
    /\ IF register_implementors # Undefined
       THEN Ingest(implementors)
       ELSE UNCHANGED ingested

(***************************************************************************)
(* The last line of a fragment:                                            *)
(*   if (window.register_implementors)                                     *)
(*        {window.register_implementors(implementors);}                    *)
(*   else {window.pending_implementors = implementors;}                    *)
(* The call runs the registrar's ingest before the script ends.  The      *)
(* assignment overwrites whatever an earlier fragment left pending.       *)
(***************************************************************************)
Submit(implementors) ==
    \/ /\ register_implementors # Undefined
       /\ Ingest(implementors)
       /\ UNCHANGED pending_implementors
    \/ /\ register_implementors = Undefined
       /\ pending_implementors' = implementors
       /\ UNCHANGED ingested

\* One run of fragment f, first line to last.
RunFragment(f) ==
    /\ Submit(Build(Statements[f]))
    /\ submitted' = Append(submitted, Build(Statements[f]))
    /\ UNCHANGED <<ALL_CRATES, register_implementors, reported>>

\* Faulty registrar: it takes what is pending and leaves it in the slot.
TakePendingWithoutClear ==
    /\ \/ /\ pending_implementors = Undefined
          /\ UNCHANGED ingested
       \/ /\ pending_implementors # Undefined
          /\ Ingest(pending_implementors)
    /\ UNCHANGED pending_implementors

\* The registrar's script takes the pending object, if there is one, and
\* nothing is pending from then on.
TakePending ==
    /\ \/ /\ pending_implementors = Undefined
          /\ UNCHANGED ingested
       \/ /\ pending_implementors # Undefined
          /\ Ingest(pending_implementors)
    /\ pending_implementors' = Undefined

\* attach(registrar) on a bridge that is not Active.
Attach(r) ==
    /\ register_implementors = Undefined
    /\ register_implementors' = r
    /\ TakePending
    /\ UNCHANGED <<ALL_CRATES, reported, submitted>>

(***************************************************************************)
(* attach(registrar) on an Active bridge, under either policy the written *)
(* specification allows.  Rejected: it is reported and the registrar in   *)
(* place stays.  Overwritten: it is reported and the registrar's script   *)
(* runs as it does the first time, r in place of the registrar before.    *)
(***************************************************************************)
RejectAttach(r) ==
    /\ SecondAttach = "reject"
    /\ register_implementors \notin {Undefined, r}
    /\ reported' = reported \cup {r}
    /\ UNCHANGED <<ALL_CRATES, slots, ingested, submitted>>

OverwriteAttach(r) ==
    /\ SecondAttach = "overwrite"
    /\ register_implementors \notin {Undefined, r}
    /\ register_implementors' = r
    /\ reported' = reported \cup {r}
    /\ TakePending
    /\ UNCHANGED <<ALL_CRATES, submitted>>

-----------------------------------------------------------------------------
(***************************************************************************)
(* The browser: which script runs next.  crates.js is run once; the       *)
(* fragment scripts are run MaxRuns times in all, any of them any number  *)
(* of times, and at most MaxEarly of these runs come before a registrar   *)
(* is attached; each registrar makes one second attach.                    *)
(***************************************************************************)
LoadFragment(f) ==
    /\ Len(submitted) < MaxRuns
    /\ register_implementors = Undefined => Len(submitted) < MaxEarly
    /\ RunFragment(f)

Next ==
    \/ ALL_CRATES = Undefined /\ LoadCrates
    \/ \E f \in Fragments : LoadFragment(f)
    \/ \E r \in Registrars : Attach(r)
    \/ \E r \in Registrars \ reported : RejectAttach(r)
    \/ \E r \in Registrars \ reported : OverwriteAttach(r)

Spec == Init /\ [][Next]_vars

\* The registrar's script is part of every page: it is eventually run.
FairSpec == Spec /\ WF_vars(\E r \in Registrars : Attach(r))

-----------------------------------------------------------------------------
TypeOK ==
    /\ ALL_CRATES \in {Undefined, AllCrates}
    /\ register_implementors \in Registrars \cup {Undefined}
    /\ pending_implementors \in Objects \cup {Undefined}
    /\ IsObject(display)
    /\ \A i \in DOMAIN display :
         \E o \in Objects : \E j \in DOMAIN o : display[i] = o[j]
    /\ WellFormed(display)
    /\ dropped \subseteq Objects
    /\ reported \subseteq Registrars
    /\ submitted \in Seq(Objects)
    /\ delivered \in Seq(Objects)

(***************************************************************************)
(* What the registrar was given is the tail end of what the fragments     *)
(* submitted: nothing is delivered twice or out of order, nothing is      *)
(* delivered that was not submitted, and once a fragment has been         *)
(* delivered none that ran after it is skipped.  It is about the two      *)
(* branches of a fragment's last line and the flush of the attach, taken  *)
(* in any order.                                                           *)
(***************************************************************************)
DeliveredIsSuffixOfSubmitted == IsSuffix(delivered, submitted)

\* The list of module m in the most recent well-formed object of history h
\* that carries m.
Latest(h, m) ==
    Get(h[Max({i \in DOMAIN h : WellFormed(h[i]) /\ HasKey(h[i], m)})], m)

(***************************************************************************)
(* The display model never shows a stale list: what it holds for a module *)
(* is the list of the latest well-formed fragment run that carries the    *)
(* module, not that of an earlier one and not a concatenation.  It is     *)
(* about the overwrite of window.pending_implementors by a later fragment *)
(* together with the registrar's replace-per-module merge.                 *)
(***************************************************************************)
DisplayNeverStale ==
    \A i \in DOMAIN display : display[i][2] = Latest(submitted, display[i][1])

(***************************************************************************)
(* Every module of every fragment the registrar accepted is on display,   *)
(* with the list of the latest accepted delivery that carries it: nothing *)
(* accepted is missing, and nothing is hidden or altered by a fragment    *)
(* that was dropped.  It is about the registrar called from the `if`      *)
(* branch of a fragment's last line, and by the attach for the object the *)
(* `else` branch left pending: an ingest takes an object whole or not at  *)
(* all.                                                                    *)
(***************************************************************************)
EveryAcceptedModuleShown ==
    \A k \in DOMAIN delivered : WellFormed(delivered[k]) =>
        \A i \in DOMAIN delivered[k] :
            LET m == delivered[k][i][1]
            IN  HasKey(display, m) /\ Get(display, m) = Latest(delivered, m)

\* Object o is visible in model: each of its modules is there with o's list.
Shows(model, o) ==
    \A i \in DOMAIN o : HasKey(model, o[i][1]) /\ Get(model, o[i][1]) = o[i][2]

(***************************************************************************)
(* Once a registrar is attached, the step in which a fragment runs is the *)
(* step in which the registrar is given its object and the display model  *)
(* shows it, also when the fragment before it was dropped: the `if`       *)
(* branch of the fragment's last line calls the registrar before the      *)
(* script ends, and leaves nothing for later.                              *)
(***************************************************************************)
ImmediateDeliveryOnceAttached ==
    [][register_implementors # Undefined /\ submitted' # submitted
         => /\ delivered' = Append(delivered, Last(submitted'))
            /\ WellFormed(Last(submitted')) => Shows(display', Last(submitted'))
            /\ pending_implementors' = Undefined]_vars

(***************************************************************************)
(* Every fragment that ran reaches the attached registrar, exactly once   *)
(* and in the order the fragments ran.  This is the guarantee of the      *)
(* written specification; the single slot window.pending_implementors     *)
(* gives it only while at most one fragment runs before the attach.       *)
(***************************************************************************)
EverySubmittedFragmentDelivered ==
    register_implementors # Undefined => delivered = submitted

(***************************************************************************)
(* From some point on the registrar has been given the most recent        *)
(* fragment, whatever the order in which the scripts ran: a fragment      *)
(* left in window.pending_implementors is taken by the attach, and no     *)
(* fragment that runs later stays behind.                                  *)
(***************************************************************************)
LatestEventuallyDelivered ==
    <>[](submitted # <<>> =>
           delivered # <<>> /\ Last(delivered) = Last(submitted))

-----------------------------------------------------------------------------
(***************************************************************************)
(* The two slots of window seen as the three-state bridge: Active once    *)
(* register_implementors is set, Buffering while an object is pending,    *)
(* Empty otherwise; the queue is the pending object, if any.              *)
(***************************************************************************)
Bridge ==
    INSTANCE RegistryBridge WITH
        PartialIndexes <- Objects,
        state <- IF register_implementors # Undefined THEN "Active"
                 ELSE IF pending_implementors # Undefined THEN "Buffering"
                 ELSE "Empty",
        queue <- IF pending_implementors = Undefined
                 THEN <<>> ELSE <<pending_implementors>>,
        registrar <- register_implementors,
        sink <- delivered

(***************************************************************************)
(* The page implements the registry bridge: every step of a script is a   *)
(* submit or an attach of the three-state machine, or leaves the bridge   *)
(* as it is.  It is about window.pending_implementors standing in for a   *)
(* FIFO queue.                                                             *)
(***************************************************************************)
ImplementsRegistryBridge == Bridge!Spec

=============================================================================
