----------------------------- MODULE ConsoleProofs -----------------------------
(***************************************************************************)
(* Proofs about Console, for any number of pages, flags, segments and      *)
(* environments, any values and any bounds.                                *)
(***************************************************************************)
EXTENDS Console, TLAPS

(* A body carries what its user did not touch as the page read it ... *)
Carries(q) ==
  \A x \in Columns \ q.touched : q.body[x] = q.edit.seen.content[x]

(* ... and a transaction carries the body of its page's request. *)
Shapes ==
  /\ \A q \in puts : Carries(q)
  /\ \A t \in txns : t.put # None => Carries(t.put) /\ t.body = t.put.body

IInv == TypeOK /\ Shapes

-----------------------------------------------------------------------------

LEMMA InitIInv == Init => IInv
<1>. SUFFICES ASSUME Init PROVE IInv
  OBVIOUS
<1>1. NoRow \in Row
  BY ConsoleAssumption DEF NoRow, DefaultContent, DefaultForm, Row, Content, Form
<1>2. ASSUME NEW k \in Keys
      PROVE  configs[k] \in Row
  BY <1>1, ConsoleAssumption DEF Init, Row
<1>3. configs \in [Keys -> Row]
  BY <1>2 DEF Init
<1>. QED BY <1>3 DEF Init, IInv, TypeOK, Shapes

-----------------------------------------------------------------------------
(* The handlers *)

(* A handler takes up a body of some shape; who sent it gives it up. *)
LEMMA LoadKeepsIInv ==
  ASSUME IInv, NEW k \in Keys, NEW body \in Content, NEW put \in Request \cup {None},
         Load(k, body, put), put # None => Carries(put) /\ body = put.body,
         UNCHANGED <<configs, pageVars>>, puts' \subseteq puts
  PROVE  IInv'
<1>. DEFINE t == [key |-> k, loaded |-> configs[k], body |-> body, put |-> put]
<1>1. t \in Transaction
  BY DEF Transaction, IInv, TypeOK
<1>2. t.put # None => Carries(t.put) /\ t.body = t.put.body
  OBVIOUS
<1>3. txns' = txns \cup {t}
  BY DEF Load
<1>. HIDE DEF t
<1>4. TypeOK'
  BY <1>1, <1>3 DEF IInv, TypeOK, pageVars
<1>5. \A s \in txns' : s.put # None => Carries(s.put) /\ s.body = s.put.body
  BY <1>2, <1>3 DEF IInv, Shapes
<1>6. \A q \in puts' : Carries(q)
  BY DEF IInv, Shapes
<1>. QED BY <1>4, <1>5, <1>6 DEF IInv, Shapes, Carries

LEMMA WrittenType ==
  ASSUME TypeOK, NEW t \in txns
  PROVE  Written(t) \in Row
<1>1. /\ t.key \in Keys /\ t.loaded \in Row /\ t.body \in Content
      /\ configs[t.key] \in Row
  BY DEF TypeOK, Transaction
<1>2. /\ Merged(t, "enabled") \in BOOLEAN
      /\ Merged(t, "form") \in Form
      /\ Merged(t, "rest") \in Values
  BY <1>1 DEF Merged, Row, Content
<1>3. t.loaded.version + 1 \in Nat
  BY <1>1 DEF Row
<1>. HIDE DEF Merged
<1>. QED BY <1>2, <1>3 DEF Written, Row, Content

LEMMA CommitKeepsIInv ==
  ASSUME IInv, NEW t \in txns, Commit(t)
  PROVE  IInv'
<1>1. configs' \in [Keys -> Row]
  BY WrittenType DEF Commit, IInv, TypeOK
<1>2. /\ txns' \subseteq txns /\ UNCHANGED <<selected, toggles, puts>>
      /\ drawer' \in [Pages -> Edit \cup {None}]
  BY DEF Commit, IInv, TypeOK
<1>. QED BY <1>1, <1>2 DEF IInv, TypeOK, Shapes, Carries

LEMMA AbortKeepsIInv ==
  ASSUME IInv, NEW t \in txns, Abort(t)
  PROVE  IInv'
BY DEF Abort, pageVars, IInv, TypeOK, Shapes, Carries

-----------------------------------------------------------------------------
(* The pages *)

LEMMA PageKeepsIInv ==
  ASSUME IInv, UNCHANGED <<configs, txns>>,
         selected' \in [Pages -> Environments],
         drawer' \in [Pages -> Edit \cup {None}],
         toggles' \in [Pages -> SUBSET Toggle],
         puts' \subseteq Request, \A q \in puts' : Carries(q)
  PROVE  IInv'
BY DEF IInv, TypeOK, Shapes, Carries

LEMMA ShowKeepsIInv ==
  ASSUME IInv, NEW p \in Pages, NEW r \in Resources, NEW row \in Row, Show(p, r, row)
  PROVE  IInv'
<1>1. [resource |-> r, from |-> selected[p], seen |-> row] \in Edit
  BY DEF Edit, IInv, TypeOK
<1>2. drawer' \in [Pages -> Edit \cup {None}]
  BY <1>1 DEF Show, IInv, TypeOK
<1>. QED BY <1>2, PageKeepsIInv DEF Show, IInv, TypeOK, Shapes

LEMMA SendKeepsIInv ==
  ASSUME IInv, NEW p \in Pages, NEW edit \in Edit, NEW touched \in SUBSET Columns,
         NEW body \in Content, Send(p, edit, touched, body),
         \A x \in Columns \ touched : body[x] = edit.seen.content[x],
         UNCHANGED <<configs, txns, selected, drawer>>,
         toggles' \in [Pages -> SUBSET Toggle]
  PROVE  IInv'
<1>. DEFINE q == [page |-> p, edit |-> edit, env |-> selected[p], touched |-> touched,
                  body |-> body]
<1>1. q \in Request /\ Carries(q)
  BY DEF Request, Carries, IInv, TypeOK
<1>2. puts' = puts \cup {q}
  BY DEF Send
<1>. HIDE DEF q
<1>3. puts' \subseteq Request /\ \A s \in puts' : Carries(s)
  BY <1>1, <1>2 DEF IInv, TypeOK, Shapes
<1>. QED BY <1>3, PageKeepsIInv DEF IInv, TypeOK

(* What a page sends back is what it read, but for what its user set. *)
LEMMA BodyType ==
  ASSUME NEW edit \in Edit, NEW enabled \in BOOLEAN, NEW form \in Form
  PROVE  LET body == ConfigBody(edit, [enabled |-> enabled, form |-> form]) IN
         /\ body \in Content
         /\ body.rest = edit.seen.content.rest
         /\ body.form = form
<1>1. edit.seen.content \in Content
  BY DEF Edit, Row
<1>. QED BY <1>1 DEF ConfigBody, Content

LEMMA SaveKeepsIInv ==
  ASSUME IInv, NEW p \in Pages, NEW enabled \in BOOLEAN, NEW shown \in Values,
         Save(p, enabled, shown)
  PROVE  IInv'
<1>. DEFINE form == [shown |-> shown, bucketing |-> DefaultBucketing]
<1>1. drawer[p] \in Edit
  BY DEF Save, IInv, TypeOK
<1>2. form \in Form
  BY ConsoleAssumption DEF Form
<1>3. Send(p, drawer[p], {"enabled", "form"},
           ConfigBody(drawer[p], [enabled |-> enabled, form |-> form]))
  BY DEF Save
<1>. HIDE DEF form
<1>4. PICK body \in Content :
        /\ body = ConfigBody(drawer[p], [enabled |-> enabled, form |-> form])
        /\ body.rest = drawer[p].seen.content.rest
  BY <1>1, <1>2, BodyType
<1>5. \A x \in Columns \ {"enabled", "form"} : body[x] = drawer[p].seen.content[x]
  BY <1>4 DEF Columns
<1>6. Send(p, drawer[p], {"enabled", "form"}, body)
  BY <1>3, <1>4
<1>7. UNCHANGED <<configs, txns, selected, drawer, toggles>>
  BY DEF Save
<1>. QED BY <1>1, <1>5, <1>6, <1>7, SendKeepsIInv DEF Columns, IInv, TypeOK

LEMMA ReadToToggleKeepsIInv ==
  ASSUME IInv, NEW p \in Pages, NEW f \in Flags, NEW enabled \in BOOLEAN,
         ReadToToggle(p, f, enabled)
  PROVE  IInv'
<1>. DEFINE t == [edit |-> [resource |-> f, from |-> selected[p],
                            seen |-> configs[<<f, selected[p]>>]],
                  enabled |-> enabled]
<1>1. t \in Toggle
  BY DEF Toggle, Edit, Resources, Keys, IInv, TypeOK
<1>2. toggles' = [toggles EXCEPT ![p] = @ \cup {t}]
  BY DEF ReadToToggle
<1>. HIDE DEF t
<1>3. toggles' \in [Pages -> SUBSET Toggle]
  BY <1>1, <1>2 DEF IInv, TypeOK
<1>. QED BY <1>3, PageKeepsIInv DEF ReadToToggle, IInv, TypeOK, Shapes

LEMMA WriteToggleKeepsIInv ==
  ASSUME IInv, NEW p \in Pages, NEW t \in toggles[p], WriteToggle(p, t)
  PROVE  IInv'
<1>1. t.edit \in Edit /\ t.enabled \in BOOLEAN /\ t.edit.seen.content.form \in Form
  BY DEF IInv, TypeOK, Toggle, Edit, Row, Content
<1>2. PICK body \in Content :
        /\ body = ConfigBody(t.edit, [enabled |-> t.enabled,
                                      form |-> t.edit.seen.content.form])
        /\ body.rest = t.edit.seen.content.rest
        /\ body.form = t.edit.seen.content.form
  BY <1>1, BodyType
<1>3. \A x \in Columns \ {"enabled"} : body[x] = t.edit.seen.content[x]
  BY <1>2 DEF Columns
<1>4. Send(p, t.edit, {"enabled"}, body)
  BY <1>2 DEF WriteToggle
<1>5. /\ UNCHANGED <<configs, txns, selected, drawer>>
      /\ toggles' \in [Pages -> SUBSET Toggle]
  BY DEF WriteToggle, IInv, TypeOK
<1>. QED BY <1>1, <1>3, <1>4, <1>5, SendKeepsIInv DEF Columns

LEMMA FailKeepsIInv ==
  ASSUME IInv, NEW p \in Pages, Fail(p)
  PROVE  IInv'
<1>1. toggles' \in [Pages -> SUBSET Toggle] /\ puts' \subseteq puts
  BY DEF Fail, IInv, TypeOK
<1>. QED BY <1>1, PageKeepsIInv DEF Fail, IInv, TypeOK, Shapes

LEMMA StepKeepsIInv ==
  ASSUME IInv, NEW p \in Pages, PageStep(p)
  PROVE  IInv'
<1>1. ASSUME NEW e \in Environments, SelectEnvironment(p, e)
      PROVE  IInv'
  BY <1>1, PageKeepsIInv DEF SelectEnvironment, IInv, TypeOK, Shapes
<1>2. ASSUME NEW r \in Resources, OpenDrawer(p, r)
      PROVE  IInv'
  <2>1. configs[<<r, selected[p]>>] \in Row
    BY DEF IInv, TypeOK, Keys
  <2>. QED BY <1>2, <2>1, ShowKeepsIInv DEF OpenDrawer
<1>3. ASSUME NEW s \in Segments, OpenDrawerBlind(p, s)
      PROVE  IInv'
  <2>1. NoRow \in Row
    BY ConsoleAssumption DEF NoRow, DefaultContent, DefaultForm, Row, Content, Form
  <2>. QED BY <1>3, <2>1, ShowKeepsIInv DEF OpenDrawerBlind, Resources
<1>4. CASE CloseDrawer(p)
  BY <1>4, PageKeepsIInv DEF CloseDrawer, IInv, TypeOK, Shapes
<1>. QED BY <1>1, <1>2, <1>3, <1>4, SaveKeepsIInv, ReadToToggleKeepsIInv,
            WriteToggleKeepsIInv, FailKeepsIInv DEF PageStep

-----------------------------------------------------------------------------
(* The specification *)

LEMMA NextIInv == IInv /\ [Next]_vars => IInv'
<1>. SUFFICES ASSUME IInv, [Next]_vars PROVE IInv'
  OBVIOUS
<1>1. CASE UNCHANGED vars
  BY <1>1 DEF vars, IInv, TypeOK, Shapes, Carries
<1>2. ASSUME NEW q \in puts, Begin(q)
      PROVE  IInv'
  <2>1. <<q.edit.resource, q.env>> \in Keys /\ q.body \in Content /\ q \in Request
    BY DEF IInv, TypeOK, Request, Edit, Keys
  <2>2. Carries(q) /\ puts' \subseteq puts /\ UNCHANGED <<configs, pageVars>>
    BY <1>2 DEF Begin, IInv, Shapes
  <2>. QED BY <1>2, <2>1, <2>2, LoadKeepsIInv DEF Begin
<1>3. ASSUME NEW k \in Keys, NEW body \in ApiBodies, ApiPut(k, body)
      PROVE  IInv'
  <2>1. body \in Content
    BY ConsoleAssumption
  <2>. QED BY <1>3, <2>1, LoadKeepsIInv DEF ApiPut
<1>. QED BY <1>1, <1>2, <1>3, StepKeepsIInv, CommitKeepsIInv, AbortKeepsIInv DEF Next

(* The inductive invariant *)
THEOREM Invariance == Spec => []IInv
BY InitIInv, NextIInv, PTL DEF Spec

(* A transaction leaves by its commit, or the table stays as it is. *)
LEMMA LeavesByCommit ==
  ASSUME IInv, [Next]_vars, NEW t \in txns, t \notin txns'
  PROVE  Commit(t) \/ UNCHANGED configs
<1>1. PICK s \in txns : Commit(s) \/ Abort(s)
  BY DEF vars, Next, PageStep, Begin, ApiPut, Load, SelectEnvironment, OpenDrawer,
         OpenDrawerBlind, Show, CloseDrawer, Save, ReadToToggle, WriteToggle, Fail
<1>2. s = t
  BY <1>1 DEF Commit, Abort
<1>. QED BY <1>1, <1>2 DEF Abort

(* A column the body has as it was loaded is not written. *)
LEMMA MergedKeeps ==
  ASSUME IInv, NEW t \in txns, Commit(t), NEW x \in Columns,
         t.body[x] = t.loaded.content[x]
  PROVE  Column(configs', t, x) = Column(configs, t, x)
<1>1. configs'[t.key] = Written(t)
  BY DEF Commit, IInv, TypeOK, Transaction
<1>2. Merged(t, x) = configs[t.key].content[x]
  BY DEF Merged
<1>3. /\ Written(t).content.enabled = Merged(t, "enabled")
      /\ Written(t).content.form = Merged(t, "form")
      /\ Written(t).content.rest = Merged(t, "rest")
  BY DEF Written
<1>4. Written(t).content[x] = Merged(t, x)
  BY <1>3 DEF Columns
<1>. QED BY <1>1, <1>2, <1>4 DEF Column

LEMMA FreshStep ==
  ASSUME IInv, [Next]_vars, NEW t \in txns, t \notin txns', t.put # None, Fresh(t)
  PROVE  KeepsColumns(t)
<1>1. Carries(t.put) /\ t.body = t.put.body
  BY DEF IInv, Shapes
<1>2. ASSUME NEW x \in Columns \ t.put.touched
      PROVE  t.body[x] = t.loaded.content[x]
  BY <1>1 DEF Carries, Fresh
<1>3. CASE Commit(t)
  BY <1>2, <1>3, MergedKeeps DEF KeepsColumns
<1>4. CASE UNCHANGED configs
  BY <1>4 DEF KeepsColumns, Column
<1>. QED BY <1>3, <1>4, LeavesByCommit

(***************************************************************************)
(* Pages, rows, requests and transactions keep their types.                *)
(***************************************************************************)
THEOREM TypeCorrect == Spec => []TypeOK
<1>1. IInv => TypeOK
  BY DEF IInv
<1>. QED BY <1>1, Invariance, PTL

(***************************************************************************)
(* However many PUTs overlap in the server, a page's whose handler loads   *)
(* the row the page read changes no column its user did not set            *)
(* (app.js:161-172, flags.py:138-162, segments.py:85-103).                 *)
(***************************************************************************)
THEOREM FreshMerges == Spec => FreshEditsMerge
<1>1. IInv /\ [Next]_vars =>
        [\A t \in txns \ txns' : (t.put # None /\ Fresh(t)) => KeepsColumns(t)]_vars
  BY FreshStep
<1>. QED BY <1>1, Invariance, PTL DEF Spec, FreshEditsMerge
=============================================================================
