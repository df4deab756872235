------------------------------- MODULE Console -------------------------------
(***************************************************************************)
(* Editing targeting in the admin console (web/static/app.js), against the *)
(* control plane's GET and PUT handlers.                                   *)
(*                                                                         *)
(* A page reads a whole configuration, lets its user change some of it and *)
(* PUTs the whole back.  Its handlers are asynchronous: while the drawer   *)
(* is open or a toggle waits for its GET, the user may select another      *)
(* environment, and others may write.  In the server the PUTs overlap: a   *)
(* handler loads the row, and only later, as its transaction is flushed    *)
(* and committed, updates it.                                              *)
(*                                                                         *)
(* A row has the columns the list's switch sets (enabled, flags only), the *)
(* ones the drawer's form sets (form: the fallthrough and off variation of *)
(* a flag; the context kind and the included and excluded keys of a        *)
(* segment) and the ones no form shows for editing (rest: targets, rules   *)
(* and prerequisites).  Columns are written one by one and the form's all  *)
(* alike, so form and rest each stand for any one of theirs.  A rollout in *)
(* the fallthrough has more than its drawer shows: the kind and attribute  *)
(* it buckets by and the order of its buckets (bucketing).                 *)
(***************************************************************************)
EXTENDS Integers, FiniteSetsExt

CONSTANTS
  Pages,          \* browser tabs with the console open
  Flags, Segments,
  Environments,
  Values,         \* what a form shows and what rest may hold
  DefaultValue,   \* empty lists and "user"
  Bucketings,     \* how rollouts deal out their members
  DefaultBucketing, \* by the user's key, in the order of the variations
  SeedContents,   \* contents the flags' rows may start from
  ApiBodies,      \* bodies other users of the PUT handlers send
  None,
  MaxVersions,    \* bound: the versions of all rows, added up
  MaxInFlight,    \* bound: the switches, and the PUTs, a page has on their way
  MaxOpen         \* bound: PUTs open in the server

Resources == Flags \cup Segments
Keys == Resources \X Environments
Form == [shown : Values, bucketing : Bucketings]
Content == [enabled : BOOLEAN, form : Form, rest : Values]
Columns == {"enabled", "form", "rest"}
Row == [content : Content, version : Nat]

(* what a page knows: the row it read and the environment it read it from *)
Edit == [resource : Resources, from : Environments, seen : Row]
Toggle == [edit : Edit, enabled : BOOLEAN]
Request == [page : Pages, edit : Edit, env : Environments, touched : SUBSET Columns,
            body : Content]

(* a PUT whose handler has loaded the row; put: a page's request, or None *)
Transaction == [key : Keys, loaded : Row, body : Content, put : Request \cup {None}]

ASSUME ConsoleAssumption ==
  /\ Flags \cap Segments = {}
  /\ DefaultValue \in Values
  /\ DefaultBucketing \in Bucketings
  /\ SeedContents \cup ApiBodies \subseteq Content
  /\ None \notin Edit
  /\ None \notin Request
  /\ MaxVersions \in Nat
  /\ MaxInFlight \in Nat
  /\ MaxOpen \in Nat

VARIABLES
  configs,   \* the two config tables: <<resource, environment>> -> row
  txns,      \* the PUTs open in the server
  selected,  \* page -> the environment its selector shows (state.envKey)
  drawer,    \* page -> the edit its drawer is open on, or None
  toggles,   \* page -> the switches that have read and not yet written
  puts       \* PUTs of the pages on their way to the server

vars == <<configs, txns, selected, drawer, toggles, puts>>

DefaultForm == [shown |-> DefaultValue, bucketing |-> DefaultBucketing]
DefaultContent == [enabled |-> FALSE, form |-> DefaultForm, rest |-> DefaultValue]
NoRow == [content |-> DefaultContent, version |-> 0]

TypeOK ==
  /\ configs \in [Keys -> Row]
  /\ txns \subseteq Transaction
  /\ selected \in [Pages -> Environments]
  /\ drawer \in [Pages -> Edit \cup {None}]
  /\ toggles \in [Pages -> SUBSET Toggle]
  /\ puts \subseteq Request

(* Flags have a row in every environment, segments do not have one yet. *)
Init ==
  /\ configs \in [Keys -> {NoRow} \cup [content : SeedContents, version : {1}]]
  /\ \A k \in Keys : configs[k].version = (IF k[1] \in Flags THEN 1 ELSE 0)
  /\ txns = {}
  /\ selected \in [Pages -> Environments]
  /\ drawer = [p \in Pages |-> None]
  /\ toggles = [p \in Pages |-> {}]
  /\ puts = {}

-----------------------------------------------------------------------------
(* The handlers: update_flag_config and update_segment_config *)

pageVars == <<selected, drawer, toggles>>

HasRoom ==
  /\ MapThenSumSet(LAMBDA k : configs[k].version, Keys) < MaxVersions
  /\ Cardinality(txns) < MaxOpen

(* The handler loads the row and sets its attributes to the body's. *)
Load(k, body, put) ==
  /\ HasRoom
  /\ txns' = txns \cup {[key |-> k, loaded |-> configs[k], body |-> body, put |-> put]}

Begin(q) ==
  /\ Load(<<q.edit.resource, q.env>>, q.body, q)
  /\ puts' = puts \ {q}
  /\ UNCHANGED <<configs, pageVars>>

ApiPut(k, body) ==
  /\ k[1] \in Segments => ~body.enabled /\ body.form.bucketing = DefaultBucketing
  /\ Load(k, body, None)
  /\ UNCHANGED <<configs, pageVars, puts>>

(* mutant: the flush updates the whole row *)
WrittenWhole(t) == [content |-> t.body, version |-> t.loaded.version + 1]

(* The flush updates the columns the handler changed, and the version to    *)
(* one more than it loaded, whatever was committed since.                   *)
Merged(t, x) ==
  IF t.body[x] = t.loaded.content[x] THEN configs[t.key].content[x] ELSE t.body[x]

Written(t) ==
  [content |-> [enabled |-> Merged(t, "enabled"), form |-> Merged(t, "form"),
                rest |-> Merged(t, "rest")],
   version |-> t.loaded.version + 1]

(* A segment's first PUT inserts, and fails on a row that is there by then. *)
(* The answer to a save closes whatever drawer is open when it arrives; an  *)
(* answer that is lost leaves it.                                           *)
Commit(t) ==
  /\ t.loaded.version = 0 => configs[t.key].version = 0
  /\ configs' = [configs EXCEPT ![t.key] = Written(t)]
  /\ txns' = txns \ {t}
  /\ \/ UNCHANGED drawer
     \/ /\ t.put # None
        /\ "form" \in t.put.touched
        /\ drawer' = [drawer EXCEPT ![t.put.page] = None]
  /\ UNCHANGED <<selected, toggles, puts>>

Abort(t) ==
  /\ txns' = txns \ {t}
  /\ UNCHANGED <<configs, pageVars, puts>>

-----------------------------------------------------------------------------
(* The page *)

(* "preserving fields the UI didn't touch": the rest is as it was read. *)
ConfigBody(edit, overrides) ==
  [edit.seen.content EXCEPT !.enabled = overrides.enabled, !.form = overrides.form]

(* Another environment in the selector: the drawer stays as it is. *)
SelectEnvironment(p, e) ==
  /\ e # selected[p]
  /\ selected' = [selected EXCEPT ![p] = e]
  /\ UNCHANGED <<configs, txns, drawer, toggles, puts>>

(* mutant: the drawer does not keep which environment it is about *)
ShowUnplaced(p, r, row) ==
  /\ drawer' = [drawer EXCEPT ![p] = [resource |-> r, seen |-> row]]
  /\ UNCHANGED <<configs, txns, selected, toggles, puts>>

(* GET of the configuration in the selected environment.  The page sees the *)
(* answer later; that delay and the time the drawer is open are one.        *)
Show(p, r, row) ==
  /\ drawer' = [drawer EXCEPT ![p] = [resource |-> r, from |-> selected[p], seen |-> row]]
  /\ UNCHANGED <<configs, txns, selected, toggles, puts>>

OpenDrawer(p, r) ==
  /\ configs[<<r, selected[p]>>].version # 0
  /\ Show(p, r, configs[<<r, selected[p]>>])

(* openSegmentDrawer takes any failure of its GET, not only the 404 of a    *)
(* segment without a row, for an empty segment.                             *)
OpenDrawerBlind(p, s) == Show(p, s, NoRow)

CloseDrawer(p) ==
  /\ drawer[p] # None
  /\ drawer' = [drawer EXCEPT ![p] = None]
  /\ UNCHANGED <<configs, txns, selected, toggles, puts>>

(* A PUT's path has the environment selected when it is sent. *)
Send(p, edit, touched, body) ==
  /\ Cardinality({q \in puts : q.page = p}) < MaxInFlight
  /\ puts' = puts \cup {[page |-> p, edit |-> edit, env |-> selected[p],
                         touched |-> touched, body |-> body]}

(* The form sets what it shows, and makes up the bucketing; the drawer     *)
(* stays until the answer.                                                 *)
Save(p, enabled, shown) ==
  /\ drawer[p] # None
  /\ drawer[p].resource \in Segments => ~enabled
  /\ Send(p, drawer[p], {"enabled", "form"},
          ConfigBody(drawer[p], [enabled |-> enabled,
            form |-> [shown |-> shown, bucketing |-> DefaultBucketing]]))
  /\ UNCHANGED <<configs, txns, selected, drawer, toggles>>

(* quickToggle: a GET ...; what the switch is set to is seen in a list that *)
(* may be old.                                                              *)
ReadToToggle(p, f, enabled) ==
  /\ Cardinality(toggles[p]) < MaxInFlight
  /\ toggles' = [toggles EXCEPT ![p] = @ \cup
       {[edit |-> [resource |-> f, from |-> selected[p],
                   seen |-> configs[<<f, selected[p]>>]],
         enabled |-> enabled]}]
  /\ UNCHANGED <<configs, txns, selected, drawer, puts>>

(* ... and a PUT, which asks for the selected environment once more. *)
WriteToggle(p, t) ==
  /\ Send(p, t.edit, {"enabled"},
          ConfigBody(t.edit, [enabled |-> t.enabled, form |-> t.edit.seen.content.form]))
  /\ toggles' = [toggles EXCEPT ![p] = @ \ {t}]
  /\ UNCHANGED <<configs, txns, selected, drawer>>

(* A request that does not reach the server: the page shows a message. *)
Fail(p) ==
  /\ \/ \E q \in puts :
          q.page = p /\ puts' = puts \ {q} /\ UNCHANGED toggles
     \/ \E t \in toggles[p] :
          toggles' = [toggles EXCEPT ![p] = @ \ {t}] /\ UNCHANGED puts
  /\ UNCHANGED <<configs, txns, selected, drawer>>

-----------------------------------------------------------------------------

PageStep(p) ==
  \/ \E e \in Environments : SelectEnvironment(p, e)
  \/ \E r \in Resources : OpenDrawer(p, r)
  \/ \E s \in Segments : OpenDrawerBlind(p, s)
  \/ CloseDrawer(p)
  \/ \E enabled \in BOOLEAN, shown \in Values : Save(p, enabled, shown)
  \/ \E f \in Flags, enabled \in BOOLEAN : ReadToToggle(p, f, enabled)
  \/ \E t \in toggles[p] : WriteToggle(p, t)
  \/ Fail(p)

Next ==
  \/ \E p \in Pages : PageStep(p)
  \/ \E q \in puts : Begin(q)
  \/ \E k \in Keys, body \in ApiBodies : ApiPut(k, body)
  \/ \E t \in txns : Commit(t) \/ Abort(t)

Spec == Init /\ [][Next]_vars

-----------------------------------------------------------------------------
(* Properties *)

Column(table, t, x) == table[t.key].content[x]

(* What is in the columns the page's user did not set stays there. *)
KeepsColumns(t) ==
  \A x \in Columns \ t.put.touched : Column(configs', t, x) = Column(configs, t, x)

(* The handler finds what the page read: same environment, same row. *)
Fresh(t) == t.put.env = t.put.edit.from /\ t.loaded = t.put.edit.seen

(***************************************************************************)
(* A page sends whole rows, and two PUTs open in the server commit over    *)
(* each other under one version; yet when the handler of a page's PUT      *)
(* loads the very row the page read, its commit leaves the columns the     *)
(* page's user did not set as it finds them, whatever others have          *)
(* committed there since the load (app.js:161-172, flags.py:138-162,       *)
(* segments.py:85-103).                                                    *)
(***************************************************************************)
FreshEditsMerge ==
  [][\A t \in txns \ txns' : (t.put # None /\ Fresh(t)) => KeepsColumns(t)]_vars

-----------------------------------------------------------------------------
(* What the comments say and the code does not do *)

(***************************************************************************)
(* "Build a FlagConfigUpdate, preserving fields the UI didn't touch."      *)
(* (app.js:161): a page's PUT changes no column its user did not set, and  *)
(* of a rollout no more than the form shows.                               *)
(***************************************************************************)
PreservesUntouched ==
  [][\A t \in txns \ txns' :
       t.put # None =>
         /\ KeepsColumns(t)
         /\ Column(configs', t, "form").bucketing = Column(configs, t, "form").bucketing]_vars
=============================================================================
