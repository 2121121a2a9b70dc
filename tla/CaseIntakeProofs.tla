------------------------- MODULE CaseIntakeProofs -------------------------
(***************************************************************************)
(* Theorems about alert intake, for any number of workers, cases, tenants  *)
(* and alerts, with and without foreign keys.                              *)
(***************************************************************************)
EXTENDS CaseIntake, TLAPS

-----------------------------------------------------------------------------
(* Facts about the operators.                                              *)

(* The cases the duplicate check finds are live, belong to the tenant and  *)
(* carry the identity, which is not empty.                                 *)
LEMMA ExistingBySourceFacts ==
    ASSUME NEW t, NEW k, NEW c \in ExistingBySource(t, k)
    PROVE  /\ c \in CaseIds
           /\ rows[c] # NoCase
           /\ rows[c].tenant = t
           /\ k # NoKey
           /\ [case |-> c, key |-> k] \in sources
  BY DEF ExistingBySource, Live

(* Conversely, a live case of the tenant with the identity is found.       *)
LEMMA ExistingBySourceFinds ==
    ASSUME NEW t, NEW k, NEW c \in CaseIds,
           rows[c] # NoCase, rows[c].tenant = t, k # NoKey,
           [case |-> c, key |-> k] \in sources
    PROVE  c \in ExistingBySource(t, k)
  BY DEF ExistingBySource, Live

LEMMA ExistingInWindowFacts ==
    ASSUME NEW a, NEW c \in ExistingInWindow(a)
    PROVE  c \in CaseIds
  BY DEF ExistingInWindow, Live

-----------------------------------------------------------------------------
(* The type invariant.                                                     *)

LEMMA ReleaseTypes ==
    ASSUME TypeOK, NEW w \in Workers, NEW c \in CaseIds \cup {NoCase}, Release(w, c)
    PROVE  /\ pc' \in [Workers -> Steps]
           /\ req' \in [Workers -> Alerts \cup {NoAlert}]
           /\ mine' \in [Workers -> CaseIds \cup {NoCase}]
           /\ doomed' \in [Workers -> Doom]
           /\ got' \in [Workers -> CaseIds \cup {NoCase}]
           /\ stored' \in [Workers -> SUBSET CaseIds]
  <1>1. NoDoom \in Doom
    BY DEF NoDoom, Doom
  <1>2. "idle" \in Steps
    BY DEF Steps
  <1>. QED
    BY <1>1, <1>2 DEF TypeOK, Release, Goto

(* A worker in its creation handler has an alert.                          *)
Busy == {"tenant", "newTenant", "source", "sourceHit", "window", "windowHit",
         "insert", "children", "reply"}

HasAlert == \A w \in Workers : pc[w] \in Busy => req[w] \in Alerts

HasCase == \A w \in Workers : pc[w] \in {"children", "reply"} => mine[w] \in used

HasFound == \A w \in Workers : pc[w] \in {"sourceHit", "windowHit"} => mine[w] \in CaseIds

Typed == TypeOK /\ HasAlert /\ HasCase /\ HasFound

LEMMA TypedInit == Init => Typed
  BY DEF Init, Typed, TypeOK, HasAlert, HasCase, HasFound, Busy, Steps, NoDoom, Doom

(* Every step preserves the types, and a handler keeps its alert and case  *)
(* until it returns.                                                       *)
LEMMA TypedStep == Typed /\ [Next]_vars => Typed'
  <1> SUFFICES ASSUME Typed, [Next]_vars PROVE Typed'
    OBVIOUS
  <1> USE IntakeAssumption DEF Typed
  <1>1. ASSUME NEW w \in Workers, NEW a \in Alerts, Receive(w, a) PROVE Typed'
    <2>1. ExistingBySource(a.tenant, a.key) \subseteq CaseIds
      BY ExistingBySourceFacts
    <2>2. TypeOK'
      BY <1>1, <2>1 DEF Receive, TypeOK, dbVars, Goto,
                       Steps
    <2>. QED
      BY <1>1, <2>2 DEF Receive, TypeOK, HasAlert, HasCase, HasFound, Busy, dbVars, Goto
  <1>2. ASSUME NEW w \in Workers, FindTenant(w) PROVE Typed'
    BY <1>2 DEF FindTenant, TypeOK, HasAlert, HasCase, HasFound, Busy, dbVars, Goto,
                       Steps
  <1>3. ASSUME NEW w \in Workers, InsertTenant(w) PROVE Typed'
    <2>1. req[w].tenant \in Tenants
      BY <1>3 DEF InsertTenant, HasAlert, Busy, Alert
    <2>. QED
      BY <1>3, <2>1 DEF InsertTenant, TypeOK, HasAlert, HasCase, HasFound, Busy, Goto, Steps
  <1>4. ASSUME NEW w \in Workers, NEW c \in CaseIds \cup {NoCase},
               Release(w, c), UNCHANGED dbVars, torn' \subseteq CaseIds
        PROVE  Typed'
    <2>1. TypeOK'
      BY <1>4, ReleaseTypes DEF TypeOK, dbVars
    <2>. QED
      BY <1>4, <2>1 DEF Release, TypeOK, HasAlert, HasCase, HasFound, Busy, dbVars, Goto
  <1>5. ASSUME NEW w \in Workers, InsertTenantFails(w) PROVE Typed'
    BY <1>4, <1>5 DEF InsertTenantFails, Return, TypeOK
  <1>6. ASSUME NEW w \in Workers, FindBySource(w) PROVE Typed'
    <2>1. ExistingBySource(req[w].tenant, req[w].key) \subseteq CaseIds
      BY ExistingBySourceFacts
    <2>. QED
      BY <1>6, <2>1 DEF FindBySource, TypeOK, HasAlert, HasCase, HasFound, Busy, dbVars, Goto,
                       Steps
  <1>7. ASSUME NEW w \in Workers, NoneBySource(w) PROVE Typed'
    BY <1>7 DEF NoneBySource, AfterSource, TypeOK, HasAlert, HasCase, HasFound, Busy, dbVars,
                Goto, Steps
  <1>8. ASSUME NEW w \in Workers, FindInWindow(w) PROVE Typed'
    <2>1. ExistingInWindow(req[w]) \subseteq CaseIds
      BY ExistingInWindowFacts
    <2>. QED
      BY <1>8, <2>1 DEF FindInWindow, TypeOK, HasAlert, HasCase, HasFound, Busy, dbVars, Goto,
                       Steps
  <1>9. ASSUME NEW w \in Workers, NoneInWindow(w) PROVE Typed'
    BY <1>9 DEF NoneInWindow, TypeOK, HasAlert, HasCase, HasFound, Busy, dbVars, Goto,
                       Steps
  <1>20. ASSUME NEW w \in Workers, AnswerExisting(w) PROVE Typed'
    BY <1>4, <1>20 DEF AnswerExisting, Return, TypeOK, Live
  <1>21. ASSUME NEW w \in Workers, LoseExisting(w) PROVE Typed'
    BY <1>21 DEF LoseExisting, AfterSource, TypeOK, HasAlert, HasCase, HasFound, Busy, dbVars,
                 Goto, Steps
  <1>10. ASSUME NEW w \in Workers, InsertCase(w) PROVE Typed'
    <2>1. [tenant |-> req[w].tenant, sig |-> req[w].sig, at |-> req[w].at] \in CaseRow
      BY <1>10 DEF InsertCase, HasAlert, Busy, Alert, CaseRow
    <2>2. TypeOK'
      BY <1>10, <2>1 DEF InsertCase, TypeOK, Goto, Steps
    <2>. QED
      BY <1>10, <2>2 DEF InsertCase, TypeOK, HasAlert, HasCase, HasFound, Busy, Goto
  <1>11. ASSUME NEW w \in Workers, InsertChildren(w) PROVE Typed'
    <2>1. mine[w] \in CaseIds /\ req[w] \in Alert
      BY <1>11 DEF InsertChildren, HasAlert, HasCase, HasFound, Busy, TypeOK
    <2>2. {[case |-> mine[w], key |-> k] : k \in SourceKeys(req[w])} \subseteq SourceRow
      BY <2>1 DEF SourceRow, SourceKeys, Alert
    <2>3. TypeOK'
      BY <1>11, <2>2 DEF InsertChildren, TypeOK, Goto, Steps
    <2>. QED
      BY <1>11, <2>3 DEF InsertChildren, TypeOK, HasAlert, HasCase, HasFound, Busy, Goto
  <1>12. ASSUME NEW w \in Workers, InsertChildrenFails(w) PROVE Typed'
    BY <1>4, <1>12 DEF InsertChildrenFails, Return, TypeOK
  <1>13. ASSUME NEW w \in Workers, Reply(w) PROVE Typed'
    BY <1>4, <1>13 DEF Reply, Return, TypeOK, Live
  <1>14. ASSUME NEW w \in Workers, NEW t \in Tenants, NEW S \in SUBSET CaseIds,
                BeginDelete(w, t, S)
         PROVE  Typed'
    <2> DEFINE allowed == {c \in S \cap Live : rows[c].tenant = t}
    <2>1. [cases |-> allowed, children |-> SourcesOf(allowed)] \in Doom
      BY DEF Doom, SourcesOf, TypeOK
    <2>2. TypeOK'
      BY <1>14, <2>1 DEF BeginDelete, TypeOK, dbVars, Goto,
                       Steps
    <2>. QED
      BY <1>14, <2>2 DEF BeginDelete, TypeOK, HasAlert, HasCase, HasFound, Busy, dbVars, Goto
  <1>15. ASSUME NEW w \in Workers, CommitDelete(w) PROVE Typed'
    <2>1. Release(w, NoCase) /\ UNCHANGED <<torn, tenants, used>>
      BY <1>15 DEF CommitDelete, Return
    <2>2. rows' \in [CaseIds -> CaseRow \cup {NoCase}] /\ sources' \subseteq SourceRow
      BY <1>15 DEF CommitDelete, TypeOK
    <2>3. TypeOK'
      BY <2>1, <2>2, ReleaseTypes DEF TypeOK
    <2>. QED
      BY <2>1, <2>3 DEF Release, TypeOK, HasAlert, HasCase, HasFound, Busy, Goto
  <1>16. ASSUME NEW w \in Workers, CommitDeleteFails(w) PROVE Typed'
    BY <1>4, <1>16 DEF CommitDeleteFails, Return, TypeOK
  <1>17. ASSUME NEW w \in Workers, DatabaseError(w) PROVE Typed'
    <2>1. torn' \subseteq CaseIds
      BY <1>17 DEF DatabaseError, TypeOK, HasCase
    <2>. QED
      BY <1>4, <1>17, <2>1 DEF DatabaseError
  <1>18. CASE Crash
    <2>1. torn' \subseteq CaseIds
      BY <1>18 DEF Crash, TypeOK, HasCase
    <2>2. NoDoom \in Doom
      BY DEF NoDoom, Doom
    <2>. QED
      BY <1>18, <2>1, <2>2 DEF Crash, TypeOK, HasAlert, HasCase, HasFound, Busy, dbVars, Steps
  <1>19. CASE UNCHANGED vars
    BY <1>19 DEF vars, TypeOK, HasAlert, HasCase, HasFound
  <1>. QED
    BY <1>1, <1>2, <1>3, <1>5, <1>6, <1>7, <1>8, <1>9, <1>10, <1>11, <1>12, <1>13,
       <1>14, <1>15, <1>16, <1>17, <1>18, <1>19, <1>20, <1>21
    DEF Next, Create, Delete

(* Every reachable state is of the declared types.                         *)
THEOREM TypeCorrect == Spec => []TypeOK
  <1>1. Spec => []Typed
    BY TypedInit, TypedStep, PTL DEF Spec
  <1>. QED
    BY <1>1, PTL DEF Typed

-----------------------------------------------------------------------------
(* No duplicate after store.                                               *)

(* The strengthening: identifiers of live and of found cases have been     *)
(* drawn, so a new case is none of the old ones; and as long as a case     *)
(* that held the alert on arrival is live, it still holds it, so the       *)
(* duplicate check finds it.                                               *)
StillHeld(w, c) ==
    /\ c \in used
    /\ rows[c] # NoCase => /\ rows[c].tenant = req[w].tenant
                           /\ req[w].key # NoKey
                           /\ [case |-> c, key |-> req[w].key] \in sources

StoredStillHeld == \A w \in Workers : \A c \in stored[w] : StillHeld(w, c)

LiveUsed == Live \subseteq used

MineUsed == \A w \in Workers : mine[w] \in used \cup {NoCase}

(* Why worker w may insert.                                                *)
MayInsert(w) ==
    \/ \A c \in stored[w] : rows[c] = NoCase
    \/ mine[w] \in CaseIds /\ rows[mine[w]] = NoCase

DedupInv == Typed /\ LiveUsed /\ MineUsed /\ StoredStillHeld /\ NoDuplicateAfterStore

LEMMA DedupInit == Init => DedupInv
  BY TypedInit DEF Init, DedupInv, LiveUsed, MineUsed, Live, StoredStillHeld,
                   NoDuplicateAfterStore, Inserting

(* What preserves the strengthening, worker by worker.  Rows may vanish,   *)
(* and rows may appear under identifiers not drawn before.                 *)
LEMMA DedupKeeps ==
    ASSUME DedupInv, Typed', LiveUsed', MineUsed', used \subseteq used',
           \A d \in used : rows'[d] = rows[d] \/ rows'[d] = NoCase,
           \A d \in used : \A k : rows'[d] # NoCase /\ [case |-> d, key |-> k] \in sources
                                => [case |-> d, key |-> k] \in sources',
           \A w \in Workers :
               \/ stored'[w] = {}
               \/ stored'[w] = stored[w] /\ req'[w] = req[w]
               \/ \A c \in stored'[w] : StillHeld(w, c)',
           \A w \in Inserting' :
               \/ stored'[w] = {}
               \/ w \in Inserting /\ stored'[w] = stored[w] /\ mine'[w] = mine[w]
               \/ MayInsert(w)'
    PROVE  DedupInv'
  <1>1. ASSUME NEW w \in Workers, NEW c \in stored'[w] PROVE StillHeld(w, c)'
    <2>1. CASE stored'[w] = stored[w] /\ req'[w] = req[w]
      BY <1>1, <2>1 DEF DedupInv, StoredStillHeld, StillHeld
    <2>. QED
      BY <1>1, <2>1
  <1>2. ASSUME NEW w \in Inserting' PROVE MayInsert(w)'
    <2>1. w \in Workers
      BY <1>2 DEF Inserting
    <2>2. CASE w \in Inserting /\ stored'[w] = stored[w] /\ mine'[w] = mine[w]
      <3>1. MayInsert(w)
        BY <2>2 DEF DedupInv, NoDuplicateAfterStore, MayInsert
      <3>2. \A c \in stored[w] : c \in used
        BY <2>1 DEF DedupInv, StoredStillHeld, StillHeld
      <3>3. mine[w] \in used \cup {NoCase}
        BY <2>1 DEF DedupInv, MineUsed
      <3>. QED
        BY <2>2, <3>1, <3>2, <3>3, IntakeAssumption DEF MayInsert
    <2>. QED
      BY <1>2, <2>2 DEF MayInsert
  <1>. QED
    BY <1>1, <1>2 DEF DedupInv, StoredStillHeld, NoDuplicateAfterStore, MayInsert

LEMMA DedupStep == DedupInv /\ [Next]_vars => DedupInv'
  <1> SUFFICES ASSUME DedupInv, [Next]_vars PROVE DedupInv'
    OBVIOUS
  <1> USE IntakeAssumption
  <1>0. Typed'
    BY TypedStep DEF DedupInv
  <1>1. ASSUME NEW w \in Workers, NEW a \in Alerts, Receive(w, a) PROVE DedupInv'
    <2>1. UNCHANGED dbVars /\ Inserting' = Inserting
      BY <1>1 DEF Receive, Inserting, DedupInv, Typed, TypeOK, Goto
    <2>2. LiveUsed' /\ MineUsed'
      BY <1>1, <2>1 DEF Receive, DedupInv, LiveUsed, MineUsed, Live, dbVars
    <2>3. \A c \in stored'[w] : StillHeld(w, c)'
      <3>1. stored'[w] = ExistingBySource(a.tenant, a.key) /\ req'[w] = a
        BY <1>1 DEF Receive, DedupInv, Typed, TypeOK
      <3>2. ASSUME NEW c \in stored'[w] PROVE c \in Live
        BY <3>1, <3>2 DEF ExistingBySource
      <3>. QED
        BY <2>1, <3>1, <3>2, ExistingBySourceFacts
        DEF DedupInv, LiveUsed, StillHeld, dbVars
    <2>4. \A v \in Workers \ {w} : stored'[v] = stored[v] /\ req'[v] = req[v]
      BY <1>1 DEF Receive, DedupInv, Typed, TypeOK
    <2>5. \A v \in Inserting : v \in Workers \ {w} /\ mine'[v] = mine[v]
      BY <1>1 DEF Receive, Inserting
    <2>. QED
      BY <1>0, <2>1, <2>2, <2>3, <2>4, <2>5, DedupKeeps DEF dbVars
  <1>2. ASSUME UNCHANGED <<rows, sources, used, req, mine, stored>>,
               Inserting' \subseteq Inserting
        PROVE  DedupInv'
    <2>1. LiveUsed' /\ MineUsed'
      BY <1>2 DEF DedupInv, LiveUsed, MineUsed, Live
    <2>. QED
      BY <1>0, <1>2, <2>1, DedupKeeps
  <1>3. ASSUME NEW w \in Workers,
               FindTenant(w) \/ InsertTenant(w) \/ NoneInWindow(w)
        PROVE  DedupInv'
    <2>1. Inserting' \subseteq Inserting
      BY <1>3 DEF FindTenant, InsertTenant, NoneInWindow, Goto, Inserting, DedupInv,
                  Typed, TypeOK
    <2>. QED
      BY <1>2, <1>3, <2>1 DEF FindTenant, InsertTenant, NoneInWindow, dbVars
  <1>4. ASSUME NEW w \in Workers, NEW c, Release(w, c), UNCHANGED used,
               NEW gone \in SUBSET CaseIds,
               rows' = [d \in CaseIds |-> IF d \in gone THEN NoCase ELSE rows[d]],
               sources' = sources \ SourcesOf(gone)
        PROVE  DedupInv'
    <2>1. /\ stored'[w] = {}
          /\ \A v \in Workers \ {w} : /\ stored'[v] = stored[v]
                                       /\ req'[v] = req[v]
                                       /\ mine'[v] = mine[v]
          /\ Inserting' \subseteq Inserting \ {w}
      BY <1>4 DEF Release, Goto, Inserting, DedupInv, Typed, TypeOK
    <2>2. LiveUsed' /\ MineUsed'
      BY <1>4 DEF Release, DedupInv, Typed, TypeOK, LiveUsed, MineUsed, Live
    <2>3. \A d \in used : d \in CaseIds /\ (rows'[d] = rows[d] \/ rows'[d] = NoCase)
      BY <1>4 DEF DedupInv, Typed, TypeOK
    <2>4. \A d \in used : \A k : rows'[d] # NoCase /\ [case |-> d, key |-> k] \in sources
                               => [case |-> d, key |-> k] \in sources'
      BY <1>4, <2>3 DEF SourcesOf
    <2>5. Inserting \subseteq Workers
      BY DEF Inserting
    <2>. QED
      BY <1>0, <1>4, <2>1, <2>2, <2>3, <2>4, <2>5, DedupKeeps
  <1>5. ASSUME NEW w \in Workers, NEW c, Release(w, c), UNCHANGED dbVars
        PROVE  DedupInv'
    <2>1. rows = [d \in CaseIds |-> IF d \in {} THEN NoCase ELSE rows[d]]
      BY DEF DedupInv, Typed, TypeOK
    <2>2. sources = sources \ SourcesOf({})
      BY DEF SourcesOf
    <2>. QED
      BY <1>4, <1>5, <2>1, <2>2 DEF dbVars
  <1>6. ASSUME NEW w \in Workers, NoneBySource(w) PROVE DedupInv'
    <2>1. /\ UNCHANGED <<rows, sources, used, req, mine, stored>>
          /\ Inserting' \subseteq Inserting \cup {w}
      BY <1>6 DEF NoneBySource, Goto, Inserting, DedupInv, Typed, TypeOK, dbVars
    <2>2. \A c \in stored[w] : rows[c] = NoCase
      <3>1. SUFFICES ASSUME NEW c \in stored[w], rows[c] # NoCase
                     PROVE  c \in ExistingBySource(req[w].tenant, req[w].key)
        BY <1>6 DEF NoneBySource
      <3>2. c \in CaseIds
        BY <3>1 DEF DedupInv, Typed, TypeOK
      <3>. QED
        BY <3>1, <3>2, ExistingBySourceFinds DEF DedupInv, StoredStillHeld, StillHeld
    <2>3. LiveUsed' /\ MineUsed'
      BY <2>1 DEF DedupInv, LiveUsed, MineUsed, Live
    <2>4. MayInsert(w)'
      BY <2>1, <2>2 DEF MayInsert
    <2>. QED
      BY <1>0, <2>1, <2>3, <2>4, DedupKeeps
  <1>7. ASSUME NEW w \in Workers, FindBySource(w) \/ FindInWindow(w) PROVE DedupInv'
    <2>1. PICK c \in Live : mine' = [mine EXCEPT ![w] = c]
      BY <1>7 DEF FindBySource, FindInWindow, ExistingBySource, ExistingInWindow
    <2>2. /\ UNCHANGED <<rows, sources, used, req, stored>>
          /\ Inserting' \subseteq Inserting \ {w}
      BY <1>7 DEF FindBySource, FindInWindow, Goto, Inserting, DedupInv, Typed, TypeOK,
                  dbVars
    <2>3. LiveUsed' /\ MineUsed'
      BY <2>1, <2>2 DEF DedupInv, Typed, TypeOK, LiveUsed, MineUsed, Live
    <2>4. \A v \in Inserting' : mine'[v] = mine[v]
      BY <2>1, <2>2 DEF Inserting, DedupInv, Typed, TypeOK
    <2>. QED
      BY <1>0, <2>2, <2>3, <2>4, DedupKeeps
  <1>16. ASSUME NEW w \in Workers, LoseExisting(w) PROVE DedupInv'
    <2>1. /\ UNCHANGED <<rows, sources, used, req, mine, stored>>
          /\ Inserting' \subseteq Inserting \cup {w}
      BY <1>16 DEF LoseExisting, Goto, Inserting, DedupInv, Typed, TypeOK, dbVars
    <2>2. LiveUsed' /\ MineUsed'
      BY <2>1 DEF DedupInv, LiveUsed, MineUsed, Live
    <2>3. mine[w] \in CaseIds /\ rows[mine[w]] = NoCase
      BY <1>16 DEF LoseExisting, Live, DedupInv, Typed, TypeOK, HasFound
    <2>4. MayInsert(w)'
      BY <2>1, <2>3 DEF MayInsert
    <2>. QED
      BY <1>0, <2>1, <2>2, <2>4, DedupKeeps
  <1>8. ASSUME NEW w \in Workers, InsertCase(w) PROVE DedupInv'
    <2>1. PICK c \in CaseIds \ used :
             /\ rows' = [rows EXCEPT ![c] = [tenant |-> req[w].tenant,
                                             sig |-> req[w].sig,
                                             at |-> req[w].at]]
             /\ used' = used \cup {c}
             /\ mine' = [mine EXCEPT ![w] = c]
      BY <1>8 DEF InsertCase
    <2>2. UNCHANGED <<sources, req, stored>> /\ Inserting' \subseteq Inserting \ {w}
      BY <1>8 DEF InsertCase, Goto, Inserting, DedupInv, Typed, TypeOK
    <2>3. LiveUsed' /\ MineUsed'
      BY <2>1 DEF DedupInv, Typed, TypeOK, LiveUsed, MineUsed, Live
    <2>4. \A d \in used : rows'[d] = rows[d]
      BY <2>1 DEF DedupInv, Typed, TypeOK
    <2>5. \A v \in Inserting' : mine'[v] = mine[v]
      BY <2>1, <2>2 DEF Inserting, DedupInv, Typed, TypeOK
    <2>. QED
      BY <1>0, <2>1, <2>2, <2>3, <2>4, <2>5, DedupKeeps
  <1>9. ASSUME NEW w \in Workers, InsertChildren(w) PROVE DedupInv'
    <2>1. /\ UNCHANGED <<rows, used, req, mine, stored>>
          /\ sources \subseteq sources'
          /\ Inserting' = Inserting
      BY <1>9 DEF InsertChildren, Goto, Inserting, DedupInv, Typed, TypeOK
    <2>2. LiveUsed' /\ MineUsed'
      BY <2>1 DEF DedupInv, LiveUsed, MineUsed, Live
    <2>. QED
      BY <1>0, <2>1, <2>2, DedupKeeps
  <1>10. ASSUME NEW w \in Workers, NEW t \in Tenants, NEW S \in SUBSET CaseIds,
                BeginDelete(w, t, S)
         PROVE  DedupInv'
    <2>1. Inserting' \subseteq Inserting
      BY <1>10 DEF BeginDelete, Goto, Inserting, DedupInv, Typed, TypeOK
    <2>. QED
      BY <1>2, <1>10, <2>1 DEF BeginDelete, dbVars
  <1>11. ASSUME NEW w \in Workers, CommitDelete(w) PROVE DedupInv'
    <2>1. doomed[w].cases \in SUBSET CaseIds
      BY DEF DedupInv, Typed, TypeOK, Doom
    <2>. QED
      BY <1>4, <1>11, <2>1 DEF CommitDelete, Return
  <1>12. ASSUME NEW w \in Workers,
                InsertTenantFails(w) \/ AnswerExisting(w) \/ InsertChildrenFails(w)
                  \/ Reply(w) \/ CommitDeleteFails(w)
         PROVE  DedupInv'
    BY <1>5, <1>12 DEF InsertTenantFails, AnswerExisting, InsertChildrenFails, Reply,
                       CommitDeleteFails, Return
  <1>13. ASSUME NEW w \in Workers, DatabaseError(w) PROVE DedupInv'
    BY <1>5, <1>13 DEF DatabaseError
  <1>14. CASE Crash
    <2>1. UNCHANGED dbVars /\ Inserting' = {} /\ \A v \in Workers : stored'[v] = {}
      BY <1>14 DEF Crash, Inserting
    <2>2. LiveUsed' /\ MineUsed'
      BY <1>14, <2>1 DEF Crash, dbVars, DedupInv, LiveUsed, MineUsed, Live
    <2>. QED
      BY <1>0, <2>1, <2>2, DedupKeeps DEF dbVars
  <1>15. CASE UNCHANGED vars
    BY <1>2, <1>15 DEF vars, Inserting
  <1>. QED
    BY <1>1, <1>3, <1>6, <1>7, <1>8, <1>9, <1>10, <1>11, <1>12, <1>13, <1>14, <1>15,
       <1>16
    DEF Next, Create, Delete

(* An alert stored before a submission of it arrives is not stored again   *)
(* by that submission, however handlers interleave, fail, crash and delete *)
(* (create_case and create_grouped_case, case_service.py).                 *)
THEOREM NoDuplicateAfterStoreHolds == Spec => []NoDuplicateAfterStore
  <1>1. Spec => []DedupInv
    BY DedupInit, DedupStep, PTL DEF Spec
  <1>. QED
    BY <1>1, PTL DEF DedupInv

-----------------------------------------------------------------------------
(* Cases without sources.                                                  *)

(* The workers between their two commits.                                  *)
Half == {w \in Workers : pc[w] = "children"}

LEMMA SourcelessStep ==
    Typed /\ SourcelessOnlyWhenTorn /\ [Next]_vars => SourcelessOnlyWhenTorn'
  <1> SUFFICES ASSUME Typed, SourcelessOnlyWhenTorn, [Next]_vars,
                      NEW c \in Live', SourcesOf({c})' = {}
               PROVE  c \in torn' \/ \E w \in Half' : mine'[w] = c
    BY DEF SourcelessOnlyWhenTorn, Half
  <1> USE DEF Typed
  <1>1. ASSUME c \in Live, SourcesOf({c}) = {}
        PROVE  c \in torn \/ \E w \in Half : mine[w] = c
    BY <1>1 DEF SourcelessOnlyWhenTorn, Half
  <1>2. ASSUME c \in Live, sources \subseteq sources', torn \subseteq torn',
               \A w \in Half : mine[w] = c => (w \in Half' /\ mine'[w] = c) \/ c \in torn'
        PROVE  c \in torn' \/ \E w \in Half' : mine'[w] = c
    BY <1>1, <1>2 DEF SourcesOf
  <1>3. ASSUME NEW w \in Workers, NEW a \in Alerts, Receive(w, a)
        PROVE  c \in torn' \/ \E v \in Half' : mine'[v] = c
    BY <1>2, <1>3 DEF Receive, dbVars, Goto, Half, Live, TypeOK
  <1>4. ASSUME NEW w \in Workers,
               FindTenant(w) \/ InsertTenant(w) \/ FindBySource(w) \/ NoneBySource(w)
                 \/ FindInWindow(w) \/ NoneInWindow(w) \/ LoseExisting(w)
        PROVE  c \in torn' \/ \E v \in Half' : mine'[v] = c
    BY <1>2, <1>4 DEF FindTenant, InsertTenant, FindBySource, NoneBySource, FindInWindow,
                      NoneInWindow, LoseExisting, AfterSource, dbVars, Goto, Half, Live, TypeOK
  <1>5. ASSUME NEW w \in Workers, NEW d, Release(w, d), UNCHANGED dbVars,
               torn \subseteq torn',
               w \in Half /\ mine[w] \in Live => mine[w] \in torn'
        PROVE  c \in torn' \/ \E v \in Half' : mine'[v] = c
    <2>1. c \in Live /\ sources \subseteq sources'
      BY <1>5 DEF dbVars, Live
    <2>2. \A v \in Half : mine[v] = c => (v \in Half' /\ mine'[v] = c) \/ c \in torn'
      BY <1>5, <2>1 DEF Release, Goto, Half, TypeOK
    <2>. QED
      BY <1>2, <1>5, <2>1, <2>2
  <1>6. ASSUME NEW w \in Workers,
               InsertTenantFails(w) \/ AnswerExisting(w) \/ InsertChildrenFails(w)
                 \/ Reply(w) \/ CommitDeleteFails(w)
        PROVE  c \in torn' \/ \E v \in Half' : mine'[v] = c
    BY <1>5, <1>6 DEF InsertTenantFails, AnswerExisting, InsertChildrenFails, Reply,
                      CommitDeleteFails, Return, Half
  <1>7. ASSUME NEW w \in Workers, InsertCase(w)
        PROVE  c \in torn' \/ \E v \in Half' : mine'[v] = c
    <2>1. PICK d \in CaseIds \ used :
             /\ rows' = [rows EXCEPT ![d] = [tenant |-> req[w].tenant,
                                             sig |-> req[w].sig,
                                             at |-> req[w].at]]
             /\ mine' = [mine EXCEPT ![w] = d]
      BY <1>7 DEF InsertCase
    <2>2. CASE c = d
      BY <1>7, <2>1, <2>2 DEF InsertCase, Goto, Half, TypeOK, Steps
    <2>3. CASE c # d
      <3>1. c \in Live
        BY <2>1, <2>3 DEF Live, TypeOK
      <3>. QED
        BY <1>2, <1>7, <2>1, <3>1 DEF InsertCase, Goto, Half, TypeOK
    <2>. QED
      BY <2>2, <2>3
  <1>8. ASSUME NEW w \in Workers, InsertChildren(w)
        PROVE  c \in torn' \/ \E v \in Half' : mine'[v] = c
    <2>1. [case |-> mine[w], key |-> req[w].key] \in sources'
      BY <1>8 DEF InsertChildren, SourceKeys
    <2>2. c # mine[w]
      BY <2>1 DEF SourcesOf
    <2>. QED
      BY <1>2, <1>8, <2>2 DEF InsertChildren, Goto, Half, Live, TypeOK
  <1>9. ASSUME NEW w \in Workers, NEW t \in Tenants, NEW S \in SUBSET CaseIds,
               BeginDelete(w, t, S)
        PROVE  c \in torn' \/ \E v \in Half' : mine'[v] = c
    BY <1>2, <1>9 DEF BeginDelete, dbVars, Goto, Half, Live, TypeOK
  <1>10. ASSUME NEW w \in Workers, CommitDelete(w)
         PROVE  c \in torn' \/ \E v \in Half' : mine'[v] = c
    <2>1. c \in Live /\ c \notin doomed[w].cases
      BY <1>10 DEF CommitDelete, Live, TypeOK
    <2>2. SourcesOf({c}) = {}
      BY <1>10, <2>1 DEF CommitDelete, SourcesOf
    <2>3. \A v \in Half : v \in Half' /\ mine'[v] = mine[v]
      BY <1>10 DEF CommitDelete, Return, Release, Goto, Half, TypeOK
    <2>. QED
      BY <1>1, <1>10, <2>1, <2>2, <2>3 DEF CommitDelete, Return
  <1>11. ASSUME NEW w \in Workers, DatabaseError(w)
         PROVE  c \in torn' \/ \E v \in Half' : mine'[v] = c
    BY <1>5, <1>11 DEF DatabaseError, Half
  <1>12. CASE Crash
    BY <1>2, <1>12 DEF Crash, dbVars, Half, Live, TypeOK
  <1>13. CASE UNCHANGED vars
    BY <1>2, <1>13 DEF vars, Half, Live
  <1>. QED
    BY <1>3, <1>4, <1>6, <1>7, <1>8, <1>9, <1>10, <1>11, <1>12, <1>13
    DEF Next, Create, Delete

(* A case that no duplicate check can find is one whose creation is in     *)
(* flight or was cut off between its two commits (create_case commits the  *)
(* case row before its sources).                                           *)
THEOREM SourcelessOnlyWhenTornHolds == Spec => []SourcelessOnlyWhenTorn
  <1>1. Init => SourcelessOnlyWhenTorn
    BY DEF Init, SourcelessOnlyWhenTorn, Live
  <1>2. Spec => [](Typed /\ SourcelessOnlyWhenTorn)
    BY <1>1, TypedInit, TypedStep, SourcelessStep, PTL DEF Spec
  <1>. QED
    BY <1>2, PTL

-----------------------------------------------------------------------------
(* What a handler answers with.                                            *)

(* The case a worker holds stands for its alert, unless it has been        *)
(* deleted since: a case found by its identity, one found by its user and  *)
(* type, or the worker's own, before and after its sources are stored.     *)
HoldsIdentity(w) ==
    [case |-> mine[w], key |-> req[w].key] \in sources

Stands(w) ==
    /\ pc[w] \in {"window", "windowHit"} => req[w].grouped
    /\ pc[w] \in {"sourceHit", "windowHit", "children", "reply"} =>
          /\ mine[w] \in used
          /\ rows[mine[w]] # NoCase =>
                /\ rows[mine[w]].tenant = req[w].tenant
                /\ pc[w] \in {"sourceHit", "reply"} => HoldsIdentity(w)
                /\ pc[w] = "windowHit" => req[w].sig # NoSig /\ rows[mine[w]].sig = req[w].sig

StandInv == Typed /\ LiveUsed /\ \A w \in Workers : Stands(w)

LEMMA StandInit == Init => StandInv
  BY TypedInit DEF Init, StandInv, LiveUsed, Live, Stands

(* A step of another handler: rows vanish or appear under identifiers not  *)
(* drawn before, and the sources of a live case stay.                      *)
LEMMA StandsKept ==
    ASSUME StandInv, NEW w \in Workers,
           pc'[w] = pc[w], req'[w] = req[w], mine'[w] = mine[w], used \subseteq used',
           \A d \in used : rows'[d] = rows[d] \/ rows'[d] = NoCase,
           \A d \in used : \A k : rows'[d] # NoCase /\ [case |-> d, key |-> k] \in sources
                                => [case |-> d, key |-> k] \in sources'
    PROVE  Stands(w)'
  BY DEF StandInv, Stands, HoldsIdentity

LEMMA StandStep == StandInv /\ [Next]_vars => StandInv'
  <1> SUFFICES ASSUME StandInv, [Next]_vars PROVE StandInv'
    OBVIOUS
  <1> USE IntakeAssumption
  <1>0. Typed'
    BY TypedStep DEF StandInv
  <1>1. ASSUME UNCHANGED dbVars, NEW w \in Workers, Stands(w)',
               \A v \in Workers \ {w} : pc'[v] = pc[v] /\ req'[v] = req[v] /\ mine'[v] = mine[v]
        PROVE  StandInv'
    <2>1. LiveUsed'
      BY <1>1 DEF StandInv, LiveUsed, Live, dbVars
    <2>2. \A v \in Workers \ {w} : Stands(v)'
      BY <1>1, StandsKept DEF dbVars
    <2>. QED
      BY <1>0, <1>1, <2>1, <2>2 DEF StandInv
  <1>2. ASSUME NEW w \in Workers, NEW a \in Alerts, Receive(w, a) PROVE StandInv'
    <2>1. Stands(w)'
      BY <1>2 DEF Receive, Goto, Stands, StandInv, Typed, TypeOK
    <2>. QED
      BY <1>1, <1>2, <2>1 DEF Receive, Goto, StandInv, Typed, TypeOK
  <1>3. ASSUME NEW w \in Workers, FindTenant(w) \/ NoneBySource(w) \/ NoneInWindow(w) \/ LoseExisting(w)
        PROVE  StandInv'
    <2>1. UNCHANGED <<dbVars, req, mine>>
      BY <1>3 DEF FindTenant, NoneBySource, NoneInWindow, LoseExisting
    <2>2. Stands(w)'
      BY <1>3, <2>1 DEF FindTenant, NoneBySource, NoneInWindow, LoseExisting, AfterSource, Goto, Stands,
                  StandInv, Typed, TypeOK
    <2>3. \A v \in Workers \ {w} : pc'[v] = pc[v]
      BY <1>3 DEF FindTenant, NoneBySource, NoneInWindow, LoseExisting, Goto, StandInv, Typed, TypeOK
    <2>. QED
      BY <1>1, <2>1, <2>2, <2>3
  <1>4. ASSUME NEW w \in Workers, InsertTenant(w) PROVE StandInv'
    <2>1. /\ UNCHANGED <<rows, sources, used, req, mine>> /\ pc'[w] = "source"
          /\ \A v \in Workers \ {w} : pc'[v] = pc[v]
      BY <1>4 DEF InsertTenant, Goto, StandInv, Typed, TypeOK
    <2>2. Stands(w)' /\ LiveUsed'
      BY <2>1 DEF Stands, StandInv, LiveUsed, Live
    <2>3. \A v \in Workers \ {w} : Stands(v)'
      BY <2>1, StandsKept
    <2>. QED
      BY <1>0, <2>2, <2>3 DEF StandInv
  <1>5. ASSUME NEW w \in Workers, NEW c, Release(w, c), UNCHANGED used,
               NEW gone \in SUBSET CaseIds,
               rows' = [d \in CaseIds |-> IF d \in gone THEN NoCase ELSE rows[d]],
               sources' = sources \ SourcesOf(gone)
        PROVE  StandInv'
    <2>1. /\ pc'[w] = "idle"
          /\ \A v \in Workers \ {w} : pc'[v] = pc[v] /\ req'[v] = req[v] /\ mine'[v] = mine[v]
      BY <1>5 DEF Release, Goto, StandInv, Typed, TypeOK
    <2>2. \A d \in used : d \in CaseIds /\ (rows'[d] = rows[d] \/ rows'[d] = NoCase)
      BY <1>5 DEF StandInv, Typed, TypeOK
    <2>3. \A d \in used : \A k : rows'[d] # NoCase /\ [case |-> d, key |-> k] \in sources
                               => [case |-> d, key |-> k] \in sources'
      BY <1>5, <2>2 DEF SourcesOf
    <2>4. Stands(w)' /\ LiveUsed'
      BY <1>5, <2>1 DEF Stands, StandInv, LiveUsed, Live
    <2>5. \A v \in Workers \ {w} : Stands(v)'
      BY <1>5, <2>1, <2>2, <2>3, StandsKept
    <2>. QED
      BY <1>0, <2>4, <2>5 DEF StandInv
  <1>6. ASSUME NEW w \in Workers, NEW c, Release(w, c), UNCHANGED dbVars PROVE StandInv'
    <2>1. /\ rows = [d \in CaseIds |-> IF d \in {} THEN NoCase ELSE rows[d]]
          /\ sources = sources \ SourcesOf({})
      BY DEF StandInv, Typed, TypeOK, SourcesOf
    <2>. QED
      BY <1>5, <1>6, <2>1 DEF dbVars
  <1>7. ASSUME NEW w \in Workers, FindBySource(w) PROVE StandInv'
    <2>1. PICK c \in ExistingBySource(req[w].tenant, req[w].key) : mine' = [mine EXCEPT ![w] = c]
      BY <1>7 DEF FindBySource
    <2>2. /\ pc'[w] = "sourceHit" /\ mine'[w] = c /\ UNCHANGED <<dbVars, req>>
          /\ \A v \in Workers \ {w} : pc'[v] = pc[v] /\ mine'[v] = mine[v]
      BY <1>7, <2>1 DEF FindBySource, Goto, StandInv, Typed, TypeOK
    <2>3. c \in used
      BY DEF ExistingBySource, StandInv, LiveUsed
    <2>4. Stands(w)'
      BY <2>2, <2>3, ExistingBySourceFacts DEF Stands, HoldsIdentity, dbVars
    <2>. QED
      BY <1>1, <2>2, <2>4
  <1>8. ASSUME NEW w \in Workers, FindInWindow(w) PROVE StandInv'
    <2>1. PICK c \in ExistingInWindow(req[w]) : mine' = [mine EXCEPT ![w] = c]
      BY <1>8 DEF FindInWindow
    <2>2. /\ pc'[w] = "windowHit" /\ mine'[w] = c /\ UNCHANGED <<dbVars, req>> /\ pc[w] = "window"
          /\ \A v \in Workers \ {w} : pc'[v] = pc[v] /\ mine'[v] = mine[v]
      BY <1>8, <2>1 DEF FindInWindow, Goto, StandInv, Typed, TypeOK
    <2>3. /\ c \in used /\ rows[c].tenant = req[w].tenant
          /\ req[w].sig # NoSig /\ rows[c].sig = req[w].sig
      BY DEF ExistingInWindow, StandInv, LiveUsed
    <2>4. req[w].grouped
      BY <2>2 DEF StandInv, Stands
    <2>5. Stands(w)'
      BY <2>2, <2>3, <2>4 DEF Stands, dbVars
    <2>. QED
      BY <1>1, <2>2, <2>5
  <1>9. ASSUME NEW w \in Workers, InsertCase(w) PROVE StandInv'
    <2>1. PICK c \in CaseIds \ used :
             /\ rows' = [rows EXCEPT ![c] = [tenant |-> req[w].tenant,
                                             sig |-> req[w].sig,
                                             at |-> req[w].at]]
             /\ used' = used \cup {c}
             /\ mine' = [mine EXCEPT ![w] = c]
      BY <1>9 DEF InsertCase
    <2>2. /\ pc'[w] = "children" /\ mine'[w] = c /\ UNCHANGED <<sources, req>>
          /\ rows'[c].tenant = req[w].tenant
          /\ \A v \in Workers \ {w} : pc'[v] = pc[v] /\ mine'[v] = mine[v]
      BY <1>9, <2>1 DEF InsertCase, Goto, StandInv, Typed, TypeOK
    <2>3. \A d \in used : rows'[d] = rows[d]
      BY <2>1 DEF StandInv, Typed, TypeOK
    <2>4. Stands(w)' /\ LiveUsed'
      BY <2>1, <2>2 DEF Stands, StandInv, Typed, TypeOK, LiveUsed, Live
    <2>5. \A v \in Workers \ {w} : Stands(v)'
      BY <2>1, <2>2, <2>3, StandsKept
    <2>. QED
      BY <1>0, <2>4, <2>5 DEF StandInv
  <1>10. ASSUME NEW w \in Workers, InsertChildren(w) PROVE StandInv'
    <2>1. /\ pc'[w] = "reply" /\ pc[w] = "children" /\ UNCHANGED <<rows, used, req, mine>>
          /\ sources \subseteq sources' /\ HoldsIdentity(w)'
          /\ \A v \in Workers \ {w} : pc'[v] = pc[v]
      BY <1>10 DEF InsertChildren, SourceKeys, HoldsIdentity, Goto, StandInv, Typed, TypeOK
    <2>2. Stands(w)' /\ LiveUsed'
      BY <2>1 DEF Stands, StandInv, LiveUsed, Live
    <2>3. \A v \in Workers \ {w} : Stands(v)'
      BY <2>1, StandsKept
    <2>. QED
      BY <1>0, <2>2, <2>3 DEF StandInv
  <1>11. ASSUME NEW w \in Workers, NEW t \in Tenants, NEW S \in SUBSET CaseIds,
                BeginDelete(w, t, S)
         PROVE  StandInv'
    <2>1. Stands(w)'
      BY <1>11 DEF BeginDelete, Goto, Stands, StandInv, Typed, TypeOK
    <2>. QED
      BY <1>1, <1>11, <2>1 DEF BeginDelete, Goto, StandInv, Typed, TypeOK
  <1>12. ASSUME NEW w \in Workers, CommitDelete(w) PROVE StandInv'
    <2>1. doomed[w].cases \in SUBSET CaseIds
      BY DEF StandInv, Typed, TypeOK, Doom
    <2>. QED
      BY <1>5, <1>12, <2>1 DEF CommitDelete, Return
  <1>13. ASSUME NEW w \in Workers,
                InsertTenantFails(w) \/ AnswerExisting(w) \/ InsertChildrenFails(w)
                  \/ Reply(w) \/ CommitDeleteFails(w) \/ DatabaseError(w)
         PROVE  StandInv'
    BY <1>6, <1>13 DEF InsertTenantFails, AnswerExisting, InsertChildrenFails, Reply,
                       CommitDeleteFails, DatabaseError, Return
  <1>14. CASE Crash
    <2>1. UNCHANGED dbVars /\ \A v \in Workers : pc'[v] = "idle"
      BY <1>14 DEF Crash
    <2>. QED
      BY <1>0, <2>1 DEF StandInv, Stands, LiveUsed, Live, dbVars
  <1>15. CASE UNCHANGED vars
    BY <1>0, <1>15, StandsKept DEF vars, StandInv, LiveUsed, Live
  <1>. QED
    BY <1>2, <1>3, <1>4, <1>7, <1>8, <1>9, <1>10, <1>11, <1>12, <1>13, <1>14, <1>15
    DEF Next, Create, Delete

(* A handler that answers with a case answers with one that exists, is of  *)
(* the caller's tenant and stands for its alert, whatever other handlers   *)
(* stored and deleted since it found or inserted it.                       *)
THEOREM AnswersStandForAlertHolds == Spec => AnswersStandForAlert
  <1> DEFINE Stood(w) == LET c == got'[w] IN
            /\ c \in Live
            /\ rows[c].tenant = req[w].tenant
            /\ \/ [case |-> c, key |-> req[w].key] \in sources
               \/ req[w].grouped /\ req[w].sig # NoSig /\ rows[c].sig = req[w].sig
  <1>1. ASSUME StandInv, [Next]_vars, NEW w \in Workers,
               pc[w] \notin {"idle", "delete"}, got'[w] # NoCase, pc'[w] = "idle"
        PROVE  Stood(w)
    <2> USE DEF StandInv, Typed, TypeOK
    <2>1. pc'[w] # pc[w]
      BY <1>1
    <2>2. ASSUME NEW v \in Workers, v # w, Create(v) \/ Delete(v) \/ DatabaseError(v)
          PROVE  FALSE
      BY <1>1, <2>1, <2>2 DEF Create, Delete, FindTenant, InsertTenant, InsertTenantFails,
         FindBySource, NoneBySource, FindInWindow, NoneInWindow, AnswerExisting, LoseExisting,
         InsertCase, InsertChildren, InsertChildrenFails, Reply, CommitDelete, CommitDeleteFails,
         DatabaseError, Return, Release, Goto
    <2>3. CASE AnswerExisting(w)
      BY <1>1, <2>3 DEF AnswerExisting, Return, Release, Stands, HoldsIdentity, Live
    <2>4. CASE Reply(w)
      BY <1>1, <2>4 DEF Reply, Return, Release, Stands, HoldsIdentity, Live
    <2>5. CASE InsertTenantFails(w) \/ InsertChildrenFails(w) \/ DatabaseError(w)
      BY <1>1, <2>5 DEF InsertTenantFails, InsertChildrenFails, DatabaseError, Return, Release
    <2>6. CASE FindTenant(w) \/ InsertTenant(w) \/ FindBySource(w) \/ NoneBySource(w)
                 \/ FindInWindow(w) \/ NoneInWindow(w) \/ LoseExisting(w) \/ InsertCase(w)
                 \/ InsertChildren(w)
      BY <1>1, <2>6 DEF FindTenant, InsertTenant, FindBySource, NoneBySource, FindInWindow,
         NoneInWindow, LoseExisting, AfterSource, InsertCase, InsertChildren, Goto
    <2>7. CASE CommitDelete(w) \/ CommitDeleteFails(w)
      BY <1>1, <2>7 DEF CommitDelete, CommitDeleteFails
    <2>8. ASSUME NEW v \in Workers, NEW a \in Alerts, Receive(v, a) PROVE FALSE
      BY <1>1, <2>1, <2>8 DEF Receive, Goto
    <2>9. ASSUME NEW v \in Workers, NEW t \in Tenants, NEW S \in SUBSET CaseIds, BeginDelete(v, t, S)
          PROVE FALSE
      BY <1>1, <2>1, <2>9 DEF BeginDelete, Goto
    <2>10. CASE Crash
      BY <1>1, <2>10 DEF Crash
    <2>11. CASE UNCHANGED vars
      BY <2>1, <2>11 DEF vars
    <2>. QED
      BY <1>1, <2>2, <2>3, <2>4, <2>5, <2>6, <2>7, <2>8, <2>9, <2>10, <2>11 DEF Next, Create, Delete
  <1>2. StandInv /\ [Next]_vars
          => [\A w \in Workers :
                (pc[w] \notin {"idle", "delete"} /\ got'[w] # NoCase /\ pc'[w] = "idle") => Stood(w)]_vars
    BY <1>1
  <1>3. Spec => []StandInv
    BY StandInit, StandStep, PTL DEF Spec
  <1>. QED
    BY <1>2, <1>3, PTL DEF Spec, AnswersStandForAlert

-----------------------------------------------------------------------------
(* Orphans.                                                                *)

(* Where the database enforces foreign keys, no source row outlives its    *)
(* case: the cascade takes the rows inserted since its first statements    *)
(* with it or fails as a whole.                                            *)
THEOREM NoOrphanSourcesHolds == ASSUME ForeignKeys PROVE Spec => []NoOrphanSources
  <1>1. Init => NoOrphanSources
    BY DEF Init, NoOrphanSources
  <1>2. Typed /\ NoOrphanSources /\ [Next]_vars => NoOrphanSources'
    <2> SUFFICES ASSUME Typed, NoOrphanSources, [Next]_vars PROVE NoOrphanSources'
      OBVIOUS
    <2> USE IntakeAssumption
    <2>1. CASE UNCHANGED <<rows, sources>>
      BY <2>1 DEF NoOrphanSources, Live
    <2>2. ASSUME NEW w \in Workers, InsertCase(w) PROVE NoOrphanSources'
      <3>1. PICK c \in CaseIds \ used : rows' = [rows EXCEPT ![c] = [tenant |-> req[w].tenant,
                                                                   sig |-> req[w].sig,
                                                                   at |-> req[w].at]]
        BY <2>2 DEF InsertCase
      <3>2. [tenant |-> req[w].tenant, sig |-> req[w].sig, at |-> req[w].at] # NoCase
        BY <2>2 DEF InsertCase, Typed, HasAlert, Busy, Alert
      <3>. QED
        BY <2>2, <3>1, <3>2 DEF InsertCase, NoOrphanSources, Live, Typed, TypeOK
    <2>3. ASSUME NEW w \in Workers, InsertChildren(w) PROVE NoOrphanSources'
      BY <2>3 DEF InsertChildren, NoOrphanSources, Live
    <2>4. ASSUME NEW w \in Workers, CommitDelete(w) PROVE NoOrphanSources'
      BY <2>4 DEF CommitDelete, NoOrphanSources, Live, SourcesOf, Typed, TypeOK
    <2>5. ASSUME ~UNCHANGED <<rows, sources>>
          PROVE  \E w \in Workers : InsertCase(w) \/ InsertChildren(w) \/ CommitDelete(w)
      BY <2>5 DEF Next, vars, dbVars, Receive, Create, Delete, BeginDelete, FindTenant, InsertTenant,
         InsertTenantFails, FindBySource, NoneBySource, FindInWindow, NoneInWindow, AnswerExisting,
         LoseExisting, InsertChildrenFails, Reply, CommitDeleteFails, DatabaseError, Crash
    <2>. QED
      BY <2>1, <2>2, <2>3, <2>4, <2>5
  <1>. QED
    BY <1>1, <1>2, TypedInit, TypedStep, PTL DEF Spec

-----------------------------------------------------------------------------
(***************************************************************************)
(* That intake implements the registry of AlertRegistry when requests are  *)
(* handled one at a time, for any number of tenants, identities and cases, *)
(* with failures and restarts, with and without foreign keys.  With two    *)
(* workers it does not (OneCasePerSource is violated).                     *)
(***************************************************************************)

(* Every alert has an identity of its own and is not grouped: for others   *)
(* the interface promises nothing.                                         *)
Identified == \A a \in Alerts : a.key # NoKey /\ a.more = {} /\ ~a.grouped

(* What is true of the only worker because nobody interferes: what it      *)
(* found or inserted is still there, the identity it is about to store is  *)
(* still unknown, and the cases it deletes are one tenant's.               *)
Alone(w) ==
    /\ StandInv
    /\ \A s \in sources : s.case \in used
    /\ pc[w] \notin {"window", "windowHit"}
    /\ pc[w] \in {"sourceHit", "children", "reply"} => mine[w] \in Live
    /\ pc[w] \in {"insert", "children"} => ExistingBySource(req[w].tenant, req[w].key) = {}
    /\ pc[w] = "children" => \A s \in sources : s.case # mine[w]
    /\ pc[w] = "delete" => \E t \in Tenants : doomed[w].cases \subseteq {c \in Live : rows[c].tenant = t}

(* The duplicate check looks at the rows and their sources alone.          *)
LEMMA ExistingUnchanged ==
    ASSUME UNCHANGED <<rows, sources>>
    PROVE  /\ Live' = Live
           /\ \A t, k : ExistingBySource(t, k)' = ExistingBySource(t, k)
           /\ Held' = Held
  BY DEF ExistingBySource, Live, Held

LEMMA AloneInit ==
    ASSUME NEW w \in Workers, Init
    PROVE  Alone(w)
  BY StandInit DEF Alone, Init

LEMMA AloneStep ==
    ASSUME NEW w, Workers = {w}, Identified, Alone(w), [Next]_vars
    PROVE  Alone(w)'
  <1> USE IntakeAssumption
  <1>0. StandInv' /\ w \in Workers
    BY StandStep DEF Alone
  <1>. DEFINE Shape == /\ pc[w] \in Steps /\ DOMAIN pc = Workers /\ DOMAIN mine = Workers
                       /\ DOMAIN req = Workers /\ DOMAIN doomed = Workers
                       /\ sources \subseteq SourceRow /\ rows \in [CaseIds -> CaseRow \cup {NoCase}]
  <1>1. Shape
    BY <1>0 DEF Alone, StandInv, Typed, TypeOK
  <1>2. ASSUME UNCHANGED <<rows, sources>>, used \subseteq used', pc'[w] \in {"idle", "tenant", "newTenant", "source"}
        PROVE  Alone(w)'
    BY <1>0, <1>2 DEF Alone
  <1>3. ASSUME NEW a \in Alerts, Receive(w, a) PROVE Alone(w)'
    BY <1>0, <1>1, <1>2, <1>3 DEF Receive, Goto, dbVars
  <1>4. CASE FindTenant(w)
    BY <1>0, <1>1, <1>2, <1>4 DEF FindTenant, Goto, dbVars
  <1>5. CASE InsertTenant(w)
    BY <1>0, <1>1, <1>2, <1>5 DEF InsertTenant, Goto
  <1>6. CASE FindBySource(w)
    <2>1. PICK c \in ExistingBySource(req[w].tenant, req[w].key) : mine' = [mine EXCEPT ![w] = c]
      BY <1>6 DEF FindBySource
    <2>2. pc'[w] = "sourceHit" /\ mine'[w] = c /\ UNCHANGED dbVars /\ c \in Live
      BY <1>0, <1>1, <1>6, <2>1 DEF FindBySource, Goto, ExistingBySource
    <2>3. Live' = Live
      BY <2>2, ExistingUnchanged DEF dbVars
    <2>. QED
      BY <1>0, <2>2, <2>3 DEF Alone, dbVars
  <1>7. CASE NoneBySource(w)
    <2>1. pc'[w] = "insert" /\ UNCHANGED <<dbVars, req>>
      BY <1>0, <1>1, <1>7 DEF NoneBySource, AfterSource, Goto, Identified, Alone, StandInv, Typed,
                             HasAlert, Busy
    <2>2. ExistingBySource(req[w].tenant, req[w].key)' = {}
      BY <1>7, <2>1, ExistingUnchanged DEF NoneBySource, dbVars
    <2>. QED
      BY <1>0, <2>1, <2>2 DEF Alone, dbVars
  <1>8. CASE FindInWindow(w) \/ NoneInWindow(w) \/ LoseExisting(w)
    BY <1>8 DEF FindInWindow, NoneInWindow, LoseExisting, Alone
  <1>9. CASE InsertCase(w)
    <2>1. PICK c \in CaseIds \ used :
             /\ rows' = [rows EXCEPT ![c] = [tenant |-> req[w].tenant,
                                             sig |-> req[w].sig,
                                             at |-> req[w].at]]
             /\ used' = used \cup {c}
             /\ mine' = [mine EXCEPT ![w] = c]
      BY <1>9 DEF InsertCase
    <2>2. /\ pc'[w] = "children" /\ mine'[w] = c /\ UNCHANGED <<sources, req>> /\ pc[w] = "insert"
      BY <1>0, <1>1, <1>9, <2>1 DEF InsertCase, Goto
    <2>3. \A s \in sources : s.case # c
      BY <2>1 DEF Alone
    <2>4. c \in Live'
      <3>1. [tenant |-> req[w].tenant, sig |-> req[w].sig, at |-> req[w].at] # NoCase
        BY <1>0, <2>2 DEF Alone, StandInv, Typed, HasAlert, Busy, Alert
      <3>. QED
        BY <1>1, <2>1, <3>1 DEF Live
    <2>5. ExistingBySource(req[w].tenant, req[w].key)' = {}
      <3>1. ASSUME NEW d \in ExistingBySource(req[w].tenant, req[w].key)' PROVE FALSE
        <4>1. /\ d \in CaseIds /\ rows'[d] # NoCase /\ rows'[d].tenant = req[w].tenant
              /\ req[w].key # NoKey /\ [case |-> d, key |-> req[w].key] \in sources
          BY <2>2, <3>1 DEF ExistingBySource, Live
        <4>2. d # c
          BY <2>3, <4>1
        <4>3. rows'[d] = rows[d]
          BY <1>1, <2>1, <4>1, <4>2
        <4>4. d \in ExistingBySource(req[w].tenant, req[w].key)
          BY <4>1, <4>3, ExistingBySourceFinds
        <4>. QED
          BY <2>2, <4>4 DEF Alone
      <3>. QED
        BY <3>1
    <2>. QED
      BY <1>0, <2>1, <2>2, <2>3, <2>4, <2>5 DEF Alone
  <1>10. CASE InsertChildren(w)
    <2>1. pc'[w] = "reply" /\ pc[w] = "children" /\ UNCHANGED <<rows, used, req, mine>>
            /\ sources' = sources \cup {[case |-> mine[w], key |-> k] : k \in SourceKeys(req[w])}
      BY <1>0, <1>1, <1>10 DEF InsertChildren, Goto
    <2>2. mine[w] \in Live /\ mine[w] \in used
      BY <1>0, <2>1 DEF Alone, StandInv, Stands
    <2>3. Live' = Live
      BY <2>1 DEF Live
    <2>4. \A s \in sources' : s.case \in used
      BY <2>1, <2>2 DEF Alone
    <2>. QED
      BY <1>0, <2>1, <2>2, <2>3, <2>4 DEF Alone
  <1>11. ASSUME NEW c, Release(w, c), UNCHANGED dbVars PROVE Alone(w)'
    BY <1>0, <1>1, <1>2, <1>11 DEF Release, Goto, dbVars
  <1>12. CASE InsertTenantFails(w) \/ AnswerExisting(w) \/ InsertChildrenFails(w)
                \/ Reply(w) \/ CommitDeleteFails(w) \/ DatabaseError(w)
    BY <1>11, <1>12 DEF InsertTenantFails, AnswerExisting, InsertChildrenFails, Reply,
                        CommitDeleteFails, DatabaseError, Return
  <1>13. ASSUME NEW t \in Tenants, NEW S \in SUBSET CaseIds, BeginDelete(w, t, S)
         PROVE  Alone(w)'
    <2>1. /\ pc'[w] = "delete" /\ UNCHANGED dbVars
          /\ doomed'[w].cases = {c \in S \cap Live : rows[c].tenant = t}
      BY <1>0, <1>1, <1>13 DEF BeginDelete, Goto
    <2>2. doomed'[w].cases \subseteq {c \in Live' : rows'[c].tenant = t}
      BY <2>1 DEF Live, dbVars
    <2>. QED
      BY <1>0, <2>1, <2>2 DEF Alone, dbVars
  <1>14. CASE CommitDelete(w)
    <2>1. pc'[w] = "idle" /\ used' = used /\ sources' \subseteq sources
      BY <1>0, <1>1, <1>14 DEF CommitDelete, Return, Release, Goto
    <2>. QED
      BY <1>0, <2>1 DEF Alone
  <1>15. CASE Crash
    BY <1>0, <1>2, <1>15 DEF Crash, dbVars
  <1>16. CASE UNCHANGED vars
    <2>1. Live' = Live /\ \A t, k : ExistingBySource(t, k)' = ExistingBySource(t, k)
      BY <1>16, ExistingUnchanged DEF vars
    <2>. QED
      BY <1>0, <1>16, <2>1 DEF vars, Alone
  <1>. QED
    BY <1>3, <1>4, <1>5, <1>6, <1>7, <1>8, <1>9, <1>10, <1>12, <1>13, <1>14, <1>15, <1>16
    DEF Next, Create, Delete

(* Storing the sources of a case is what the registry calls storing it.    *)
LEMMA StoreRefines ==
    ASSUME NEW w, Workers = {w}, Identified, Alone(w), InsertChildren(w)
    PROVE  Registry!Next
  <1>. DEFINE a == req[w]
              i == <<a.tenant, a.key>>
              c == mine[w]
  <1>1. /\ pc[w] = "children" /\ a \in Alerts /\ a \in Alert /\ a.key # NoKey /\ a.more = {}
        /\ i \in Tenants \X Keys /\ a.tenant \in Tenants /\ a.key \in Keys
    BY IntakeAssumption DEF InsertChildren, Alone, StandInv, Typed, HasAlert, Busy, Identified, Alert
  <1>2. /\ c \in Live /\ c \in CaseIds /\ rows[c].tenant = a.tenant
        /\ ExistingBySource(a.tenant, a.key) = {} /\ \A s \in sources : s.case # c
    BY <1>1 DEF Alone, StandInv, Stands, Live
  <1>3. sources' = sources \cup {[case |-> c, key |-> a.key]} /\ UNCHANGED <<rows, got>>
    BY <1>1 DEF InsertChildren, SourceKeys
  <1>4. Live' = Live
    BY <1>3 DEF Live
  <1>. HIDE DEF a, c
  <1>5. ASSUME NEW t \in Tenants, NEW k \in Keys
        PROVE  ExistingBySource(t, k)' = IF t = a.tenant /\ k = a.key THEN {c} ELSE ExistingBySource(t, k)
    <2>1. \A d : [case |-> d, key |-> k] \in sources'
                <=> [case |-> d, key |-> k] \in sources \/ (d = c /\ k = a.key)
      BY <1>3
    <2>2. CASE t = a.tenant /\ k = a.key
      BY <1>1, <1>2, <1>3, <1>4, <2>1, <2>2 DEF ExistingBySource
    <2>3. CASE k # a.key
      BY <1>3, <1>4, <2>1, <2>3 DEF ExistingBySource
    <2>4. CASE t # a.tenant
      BY <1>2, <1>3, <1>4, <2>1, <2>4 DEF ExistingBySource
    <2>. QED
      BY <2>2, <2>3, <2>4
  <1>6. Held' = [Held EXCEPT ![i] = {c}]
    <2>1. ASSUME NEW j \in Tenants \X Keys
          PROVE  Held'[j] = IF j = i THEN {c} ELSE Held[j]
      BY <1>1, <1>5 DEF Held
    <2>. QED
      BY <1>1, <2>1 DEF Held
  <1>7. Held[i] = {}
    BY <1>1, <1>2 DEF Held
  <1>8. \A j \in Tenants \X Keys : c \notin Held[j]
    BY <1>2 DEF Held, ExistingBySource
  <1>9. Registry!Store(i)
    BY <1>2, <1>3, <1>6, <1>7, <1>8 DEF Registry!Store, Registry!AllHeld, Registry!Identities
  <1>. QED
    BY <1>1, <1>9 DEF Registry!Next, Registry!Identities

(* The commit of a cascade is what it calls removing cases.                *)
LEMMA RemoveRefines ==
    ASSUME NEW w, Workers = {w}, Alone(w), CommitDelete(w)
    PROVE  Registry!Next
  <1>. DEFINE S == doomed[w].cases
  <1>1. PICK t \in Tenants : S \subseteq {c \in Live : rows[c].tenant = t}
    BY DEF CommitDelete, Alone
  <1>2. /\ sources' = sources \ SourcesOf(S)
        /\ rows' = [c \in CaseIds |-> IF c \in S THEN NoCase ELSE rows[c]]
        /\ got' = [got EXCEPT ![w] = NoCase]
    BY DEF CommitDelete, Return, Release
  <1>. HIDE DEF S
  <1>3. S \in SUBSET CaseIds
    BY <1>1 DEF Live
  <1>4. ASSUME NEW u \in Tenants, NEW k \in Keys
        PROVE  ExistingBySource(u, k)' = IF u = t THEN ExistingBySource(u, k) \ S
                                                  ELSE ExistingBySource(u, k)
    <2>1. Live' = Live \ S /\ \A c \in Live' : rows'[c] = rows[c]
      BY <1>2 DEF Live
    <2>2. \A c \in Live' : [case |-> c, key |-> k] \in sources' <=> [case |-> c, key |-> k] \in sources
      BY <1>2, <2>1 DEF SourcesOf
    <2>3. ExistingBySource(u, k)' = ExistingBySource(u, k) \ S
      BY <2>1, <2>2 DEF ExistingBySource
    <2>4. u # t => ExistingBySource(u, k) \cap S = {}
      BY <1>1 DEF ExistingBySource
    <2>. QED
      BY <2>3, <2>4
  <1>5. Held' = [i \in Tenants \X Keys |-> IF i[1] = t THEN Held[i] \ S ELSE Held[i]]
    BY <1>4 DEF Held
  <1>6. got' = [got EXCEPT ![w] = NoCase]
    BY <1>2
  <1>7. Registry!Remove(w, t, S)
    BY <1>5, <1>6 DEF Registry!Remove, Registry!Identities
  <1>. QED
    BY <1>3, <1>7 DEF Registry!Next

(* Every other step answers, fails, restarts or is invisible.              *)
LEMMA StepRefines ==
    ASSUME NEW w, Workers = {w}, Identified, Alone(w), [Next]_vars
    PROVE  [Registry!Next]_(Registry!vars)
  <1>1. CASE InsertChildren(w)
    BY <1>1, StoreRefines
  <1>2. CASE CommitDelete(w)
    BY <1>2, RemoveRefines
  <1>3. ASSUME UNCHANGED dbVars, got' = [got EXCEPT ![w] = NoCase] PROVE Registry!Next
    <2>1. UNCHANGED Held
      BY <1>3, ExistingUnchanged DEF dbVars
    <2>. QED
      BY <1>3, <2>1 DEF Registry!Next, Registry!Fail
  <1>4. CASE InsertTenantFails(w) \/ InsertChildrenFails(w) \/ CommitDeleteFails(w) \/ DatabaseError(w)
    BY <1>3, <1>4 DEF InsertTenantFails, InsertChildrenFails, CommitDeleteFails, DatabaseError,
                      Return, Release
  <1>5. CASE AnswerExisting(w) \/ Reply(w)
    <2>. DEFINE a == req[w]
                i == <<a.tenant, a.key>>
                c == mine[w]
    <2>1. /\ pc[w] \in {"sourceHit", "reply"} /\ c \in Live /\ UNCHANGED dbVars
          /\ got' = [got EXCEPT ![w] = c]
      BY <1>5 DEF AnswerExisting, Reply, Return, Release, Alone
    <2>2. a \in Alerts /\ i \in Tenants \X Keys /\ a.tenant \in Tenants /\ a.key \in Keys /\ a.key # NoKey
      BY <2>1, IntakeAssumption DEF Alone, StandInv, Typed, HasAlert, Busy, Identified, Alert
    <2>3. c \in ExistingBySource(a.tenant, a.key)
      BY <2>1, <2>2 DEF Alone, StandInv, Stands, HoldsIdentity, ExistingBySource, Live
    <2>4. c \in Held[i] /\ UNCHANGED Held
      BY <2>1, <2>2, <2>3, ExistingUnchanged DEF Held, dbVars
    <2>5. Registry!Answer(w, i)
      BY <2>1, <2>4 DEF Registry!Answer
    <2>. QED
      BY <2>2, <2>5 DEF Registry!Next, Registry!Identities
  <1>6. CASE InsertCase(w)
    <2>1. PICK c \in CaseIds \ used :
             rows' = [rows EXCEPT ![c] = [tenant |-> req[w].tenant,
                                          sig |-> req[w].sig,
                                          at |-> req[w].at]]
      BY <1>6 DEF InsertCase
    <2>2. UNCHANGED <<sources, got>> /\ rows \in [CaseIds -> CaseRow \cup {NoCase}]
      BY <1>6 DEF InsertCase, Alone, StandInv, Typed, TypeOK
    <2>3. \A d \in CaseIds : d # c => rows'[d] = rows[d]
      BY <2>1, <2>2
    <2>4. \A k : [case |-> c, key |-> k] \notin sources
      BY <2>1 DEF Alone
    <2>5. \A t, k : ExistingBySource(t, k)' = ExistingBySource(t, k)
      BY <2>2, <2>3, <2>4 DEF ExistingBySource, Live
    <2>6. UNCHANGED Held
      BY <2>5 DEF Held
    <2>. QED
      BY <2>2, <2>6 DEF Registry!vars
  <1>7. ASSUME UNCHANGED <<rows, sources, got>> PROVE UNCHANGED Registry!vars
    BY <1>7, ExistingUnchanged DEF Registry!vars
  <1>8. CASE FindTenant(w) \/ InsertTenant(w) \/ FindBySource(w) \/ NoneBySource(w)
               \/ FindInWindow(w) \/ NoneInWindow(w) \/ LoseExisting(w)
    BY <1>7, <1>8 DEF FindTenant, InsertTenant, FindBySource, NoneBySource, FindInWindow,
                      NoneInWindow, LoseExisting, dbVars
  <1>9. ASSUME NEW a \in Alerts, Receive(w, a) PROVE UNCHANGED Registry!vars
    BY <1>7, <1>9 DEF Receive, dbVars
  <1>10. ASSUME NEW t \in Tenants, NEW S \in SUBSET CaseIds, BeginDelete(w, t, S)
         PROVE  UNCHANGED Registry!vars
    BY <1>7, <1>10 DEF BeginDelete, dbVars
  <1>11. CASE Crash
    <2>1. UNCHANGED Held /\ got' = [v \in Workers |-> NoCase]
      BY <1>11, ExistingUnchanged DEF Crash, dbVars
    <2>. QED
      BY <2>1 DEF Registry!Next, Registry!Restart
  <1>12. CASE UNCHANGED vars
    BY <1>7, <1>12 DEF vars
  <1>. QED
    BY <1>1, <1>2, <1>4, <1>5, <1>6, <1>8, <1>9, <1>10, <1>11, <1>12 DEF Next, Create, Delete

(* With one request at a time intake implements the registry: each         *)
(* identity of a tenant gets at most one case, across failed requests,     *)
(* restarts and deletions, and every answer is the case that holds it      *)
(* (create_case: "Idempotent").                                            *)
THEOREM IntakeImplementsRegistryHolds ==
    ASSUME NEW w, Workers = {w}, Identified
    PROVE  Spec => IntakeImplementsRegistry
  <1>1. Init => Registry!Init
    BY DEF Init, Registry!Init, Registry!Identities, Held, ExistingBySource, Live
  <1>2. Init => Alone(w)
    BY AloneInit
  <1>3. Alone(w) /\ [Next]_vars => Alone(w)'
    BY AloneStep
  <1>4. Alone(w) /\ [Next]_vars => [Registry!Next]_(Registry!vars)
    BY StepRefines
  <1>. QED
    BY <1>1, <1>2, <1>3, <1>4, PTL DEF Spec, IntakeImplementsRegistry, Registry!Spec
=============================================================================
