--------------------------- MODULE Algebra_proofs ---------------------------
(***************************************************************************)
(* Proofs about queries: which relations a query leaves open and which it  *)
(* leaves changed, for any relations, queries and sizes of the disk and of *)
(* the open relation table, for every way a query can fail, and for every  *)
(* number used for a block when the disk is full.                          *)
(***************************************************************************)
EXTENDS Algebra, TLAPS

-----------------------------------------------------------------------------
(* Functions.                                                              *)

\* A map without some of its elements.
LEMMA WithoutMap ==
  ASSUME NEW f, NEW S
  PROVE  /\ DOMAIN Without(f, S) = DOMAIN f \ S
         /\ \A x \in DOMAIN f \ S : Without(f, S)[x] = f[x]
BY DEF Without, Restrict

\* A map with one element more or one replaced.
LEMMA WithMap ==
  ASSUME NEW f, NEW r, NEW v
  PROVE  /\ DOMAIN With(f, r, v) = DOMAIN f \cup {r}
         /\ \A x \in DOMAIN f \ {r} : With(f, r, v)[x] = f[x]
BY DEF With

-----------------------------------------------------------------------------
(* Calls.                                                                  *)

IsDb(u) == u = [rels |-> u.rels, trees |-> u.trees, open |-> u.open]

\* v has the relations of u, those in S aside
Like(u, v, S) ==
  /\ DOMAIN v.rels \ S = DOMAIN u.rels \ S
  /\ \A s \in DOMAIN u.rels \ S : v.rels[s] = u.rels[s]

\* the same relations are open
SameOpen(u, v) == DOMAIN v.open = DOMAIN u.open

\* The database of the state is a record.
LEMMA DbIs == IsDb(Db) /\ Db.rels = rels /\ Db.open = open
BY DEF IsDb, Db

\* createRel adds one relation, which is not open.
LEMMA CreateCall ==
  ASSUME NEW u, IsDb(u), NEW r, NEW attrs
  PROVE  LET v == createRel(u, r, attrs) IN
         IsDb(v) /\ Like(u, v, {r}) /\ SameOpen(u, v) /\ DOMAIN v.rels = DOMAIN u.rels \cup {r}
<1> DEFINE new == [attrs |-> attrs, recs |-> <<>>, roots |-> {}]
           v   == createRel(u, r, attrs)
<1>1. v = [rels |-> With(u.rels, r, new), trees |-> u.trees, open |-> u.open]
  BY DEF createRel, IsDb
<1>2. /\ DOMAIN With(u.rels, r, new) = DOMAIN u.rels \cup {r}
      /\ \A x \in DOMAIN u.rels \ {r} : With(u.rels, r, new)[x] = u.rels[x]
  BY WithMap
<1> HIDE DEF v, new
<1>3. IsDb(v) /\ v.rels = With(u.rels, r, new) /\ v.open = u.open
  BY <1>1 DEF IsDb
<1>4. Like(u, v, {r}) /\ SameOpen(u, v) /\ DOMAIN v.rels = DOMAIN u.rels \cup {r}
  BY <1>2, <1>3 DEF Like, SameOpen
<1> QED BY <1>3, <1>4 DEF v

\* openRel changes no relation.
LEMMA OpenCall ==
  ASSUME NEW u, IsDb(u), NEW r
  PROVE  LET v == openRel(u, r) IN
         IsDb(v) /\ v.rels = u.rels /\ DOMAIN v.open = DOMAIN u.open \cup {r}
<1> DEFINE entry == [search |-> 0, index |-> [i \in DOMAIN Attrs(u, r) |-> 0],
                     roots |-> u.rels[r].roots]
           v     == openRel(u, r)
<1>1. v = [rels |-> u.rels, trees |-> u.trees, open |-> With(u.open, r, entry)]
  BY DEF openRel, IsDb
<1> HIDE DEF v, entry
<1>2. IsDb(v) /\ v.rels = u.rels /\ v.open = With(u.open, r, entry)
  BY <1>1 DEF IsDb
<1>3. DOMAIN With(u.open, r, entry) = DOMAIN u.open \cup {r}
  BY WithMap
<1> QED BY <1>2, <1>3 DEF v

\* closeRel changes the catalog record of its relation alone.
LEMMA CloseCall ==
  ASSUME NEW u, IsDb(u), NEW r
  PROVE  LET v == closeRel(u, r) IN
         /\ IsDb(v) /\ Like(u, v, {r}) /\ DOMAIN v.rels = DOMAIN u.rels
         /\ DOMAIN v.open = DOMAIN u.open \ {r}
<1> DEFINE newRels == [u.rels EXCEPT ![r].roots = u.open[r].roots]
           v       == closeRel(u, r)
<1>1. v = [rels |-> newRels, trees |-> u.trees, open |-> Without(u.open, {r})]
  <2>1. v = [u EXCEPT !.rels = newRels, !.open = Without(u.open, {r})]
    BY DEF closeRel
  <2> HIDE DEF v, newRels
  <2> QED BY <2>1 DEF IsDb
<1>2. DOMAIN newRels = DOMAIN u.rels /\ \A s \in DOMAIN u.rels \ {r} : newRels[s] = u.rels[s]
  OBVIOUS
<1> HIDE DEF v, newRels
<1>3. IsDb(v) /\ v.rels = newRels /\ v.open = Without(u.open, {r})
  BY <1>1 DEF IsDb
<1>4. Like(u, v, {r}) /\ DOMAIN v.rels = DOMAIN u.rels
  BY <1>2, <1>3 DEF Like
<1>5. DOMAIN v.open = DOMAIN u.open \ {r}
  BY <1>3, WithoutMap
<1> QED BY <1>3, <1>4, <1>5 DEF v

\* deleteRel removes a relation that is not open.
LEMMA DeleteCall ==
  ASSUME NEW u, IsDb(u), NEW r
  PROVE  LET v == deleteRel(u, r) IN
         /\ IsDb(v) /\ Like(u, v, {r}) /\ v.open = u.open
         /\ r \notin DOMAIN u.open => DOMAIN v.rels = DOMAIN u.rels \ {r}
         /\ r \in DOMAIN u.open => v = u
<1> DEFINE newRels  == Without(u.rels, {r})
           newTrees == Without(u.trees, {<<r, i>> : i \in u.rels[r].roots})
           v        == deleteRel(u, r)
<1>1. CASE r \in DOMAIN u.open \/ r \notin DOMAIN u.rels
  <2>1. v = u
    BY <1>1 DEF deleteRel
  <2> HIDE DEF v
  <2>2. Like(u, v, {r}) /\ v.open = u.open /\ (r \notin DOMAIN u.open => DOMAIN v.rels = DOMAIN u.rels \ {r})
    BY <1>1, <2>1 DEF Like
  <2> QED BY <2>1, <2>2 DEF v
<1>2. CASE r \notin DOMAIN u.open /\ r \in DOMAIN u.rels
  <2>1. v = [rels |-> newRels, trees |-> newTrees, open |-> u.open]
    BY <1>2 DEF deleteRel, IsDb
  <2>2. DOMAIN newRels = DOMAIN u.rels \ {r} /\ \A s \in DOMAIN u.rels \ {r} : newRels[s] = u.rels[s]
    BY WithoutMap
  <2> HIDE DEF v, newRels, newTrees
  <2>3. IsDb(v) /\ v.rels = newRels /\ v.open = u.open
    BY <2>1 DEF IsDb
  <2>4. Like(u, v, {r}) /\ DOMAIN v.rels = DOMAIN u.rels \ {r}
    BY <2>2, <2>3 DEF Like
  <2> QED BY <1>2, <2>3, <2>4 DEF v
<1> QED BY <1>1, <1>2

\* insert changes its relation alone, apart from the trees.
LEMMA InsertCall ==
  ASSUME NEW u, IsDb(u), NEW r, NEW rec
  PROVE  LET v == insert(u, r, rec) IN
         IsDb(v) /\ Like(u, v, {r}) /\ DOMAIN v.rels = DOMAIN u.rels /\ v.open = u.open
<1> DEFINE recs     == Append(Recs(u, r), rec)
           newRels  == [u.rels EXCEPT ![r].recs = recs]
           newTrees == [t \in DOMAIN u.trees |->
                          IF t[1] = r /\ t[2] \in u.open[r].roots
                          THEN Entered(recs, u.trees[t], t[2], Len(recs))
                          ELSE u.trees[t]]
           v        == insert(u, r, rec)
<1>1. v = [rels |-> newRels, trees |-> newTrees, open |-> u.open]
  <2>1. v = [u EXCEPT !.rels = newRels, !.trees = newTrees]
    BY DEF insert
  <2> HIDE DEF v, newRels, newTrees
  <2> QED BY <2>1 DEF IsDb
<1>2. DOMAIN newRels = DOMAIN u.rels /\ \A s \in DOMAIN u.rels \ {r} : newRels[s] = u.rels[s]
  OBVIOUS
<1> HIDE DEF v, newRels, newTrees, recs
<1>3. IsDb(v) /\ v.rels = newRels /\ v.open = u.open
  BY <1>1 DEF IsDb
<1>4. Like(u, v, {r}) /\ DOMAIN v.rels = DOMAIN u.rels
  BY <1>2, <1>3 DEF Like
<1> QED BY <1>3, <1>4 DEF v

\* A new index is known to the cache only.
LEMMA IndexCall ==
  ASSUME NEW u, IsDb(u), NEW r, NEW i
  PROVE  LET v == bPlusCreate(u, r, i) IN IsDb(v) /\ v.rels = u.rels /\ SameOpen(u, v)
<1> DEFINE newOpen == [u.open EXCEPT ![r].roots = u.open[r].roots \cup {i}]
           w       == setAttrCatEntry(u, r, u.open[r].roots \cup {i})
           v       == bPlusCreate(u, r, i)
<1>1. w = [rels |-> u.rels, trees |-> u.trees, open |-> newOpen]
  BY DEF setAttrCatEntry, IsDb
<1>2. DOMAIN newOpen = DOMAIN u.open
  OBVIOUS
<1>3. PICK t : v = [w EXCEPT !.trees = t]
  BY DEF bPlusCreate
<1> HIDE DEF v, w, newOpen
<1>4. v = [rels |-> u.rels, trees |-> t, open |-> newOpen]
  BY <1>1, <1>3
<1>5. IsDb(v) /\ v.rels = u.rels /\ v.open = newOpen
  BY <1>4 DEF IsDb
<1> QED BY <1>2, <1>5 DEF SameOpen, v

\* So is a root that is no block.
LEMMA IndexLostCall ==
  ASSUME NEW u, IsDb(u), NEW r, NEW i
  PROVE  LET v == bPlusCreateLost(u, r, i) IN IsDb(v) /\ v.rels = u.rels /\ SameOpen(u, v)
<1> DEFINE newOpen == [u.open EXCEPT ![r].roots = u.open[r].roots \cup {i}]
           v       == bPlusCreateLost(u, r, i)
<1>1. v = [rels |-> u.rels, trees |-> u.trees, open |-> newOpen]
  BY DEF bPlusCreateLost, setAttrCatEntry, IsDb
<1>2. DOMAIN newOpen = DOMAIN u.open
  OBVIOUS
<1> HIDE DEF v, newOpen
<1>3. IsDb(v) /\ v.rels = u.rels /\ v.open = newOpen
  BY <1>1 DEF IsDb
<1> QED BY <1>2, <1>3 DEF SameOpen, v

\* A record that is stored nowhere changes no relation.
LEMMA InsertLostCall ==
  ASSUME NEW u, IsDb(u), NEW r, NEW rec
  PROVE  LET v == insertLost(u, r, rec) IN v.rels = u.rels /\ v.open = u.open
<1> DEFINE v == insertLost(u, r, rec)
<1>1. PICK T : v = [u EXCEPT !.trees = T]
  BY DEF insertLost
<1> HIDE DEF v
<1>2. v.rels = u.rels /\ v.open = u.open
  BY <1>1 DEF IsDb
<1> QED BY <1>2 DEF v

-----------------------------------------------------------------------------
(* The inductive invariant: where a query is, and what it has done so far. *)

\* the temporary relation, while the second function of a query reads it
Temps == IF call = First(query) THEN {} ELSE {Temp(query)}

\* what is open when a function of the algebra layer begins
Base == old.open \cup Temps

\* the relations the query found are as it found them, those in S aside
Same(S) ==
  /\ DOMAIN rels \ S = DOMAIN old.rels \ S
  /\ \A r \in DOMAIN rels \ S : <<rels[r].attrs, rels[r].recs>> = old.rels[r]

OpenExist == DOMAIN open \subseteq DOMAIN rels

\* a function runs for a query, the second after the first has made its temporary
Running ==
  pc # "idle" =>
    /\ query \in Queries
    /\ \/ call = First(query)
       \/ Composite(query) /\ call = Second(query) /\ Temp(query) \notin old.open

Called == pc = "call" /\ ~lost => DOMAIN open = Base /\ Same(Temps)

\* while the target fills it is open, and new
Filling ==
  pc \in {"scan", "match"} =>
    /\ DOMAIN open = Base \cup {call.target}
    /\ call.target \notin Base /\ call.target \notin DOMAIN old.rels
    /\ Same(Temps \cup {call.target})
    /\ pc = "match" => call.kind = "join"

Failed == pc = "back" /\ ret # "SUCCESS" => DOMAIN open = Base /\ Same(Temps)

\* a join leaves its target open
Succeeded ==
  pc = "back" /\ ret = "SUCCESS" =>
    /\ call.target \in DOMAIN rels /\ call.target \notin Base
    /\ DOMAIN open = Base \cup (IF call.kind = "join" THEN {call.target} ELSE {})
    /\ Same(Temps \cup {call.target})

IInv ==
  /\ OpenExist /\ Running /\ Called /\ Filling /\ Failed /\ Succeeded
  /\ TargetsClosed

-----------------------------------------------------------------------------
(* What a step of a query does to the relations.                           *)

\* u differs from the database in search indexes and trees at most
Quiet(u) == IsDb(u) /\ u.rels = rels /\ DOMAIN u.open = DOMAIN open

Goes == UNCHANGED <<query, call, old>>

\* the relations are what they were, those in S aside
Keeps(S) ==
  /\ DOMAIN rels' \ S = DOMAIN rels \ S
  /\ \A r \in DOMAIN rels \ S : rels'[r] = rels[r]

Refused ==
  /\ Goes /\ pc' = "back" /\ ret' # "SUCCESS"
  /\ rels' = rels /\ DOMAIN open' = DOMAIN open

Prepared ==
  /\ Goes /\ pc' = "scan" /\ call.target \notin DOMAIN rels
  /\ Keeps({call.target}) /\ DOMAIN rels' = DOMAIN rels \cup {call.target}
  /\ DOMAIN open' = DOMAIN open \cup {call.target}

Extended ==
  /\ Goes /\ pc' = pc
  /\ Keeps({call.target}) /\ DOMAIN rels' = DOMAIN rels /\ DOMAIN open' = DOMAIN open

\* something is lost before the target is there
Stuck ==
  /\ Goes /\ pc' = "call" /\ lost'
  /\ DOMAIN rels \subseteq DOMAIN rels' /\ DOMAIN open' = DOMAIN open

Undone ==
  /\ Goes /\ pc' = "back" /\ ret' # "SUCCESS"
  /\ Keeps({call.target}) /\ DOMAIN rels' = DOMAIN rels \ {call.target}
  /\ DOMAIN open' = DOMAIN open \ {call.target}

Closed ==
  /\ Goes /\ pc' = "back" /\ ret' = "SUCCESS"
  /\ Keeps({call.target}) /\ DOMAIN rels' = DOMAIN rels
  /\ DOMAIN open' = DOMAIN open \ {call.target}

\* The record of the database after SetDb.
LEMMA SetDbIs ==
  ASSUME NEW v, SetDb(v)
  PROVE  rels' = v.rels /\ open' = v.open
BY DEF SetDb

\* Moving and resetting search indexes is quiet.
LEMMA QuietSearch ==
  ASSUME NEW u, Quiet(u), NEW r, NEW i, NEW k
  PROVE  Quiet(Moved(u, r, i, k)) /\ Quiet(ResetSearch(u, r, i))
<1>1. Quiet([u EXCEPT !.open[r].search = k]) /\ Quiet([u EXCEPT !.open[r].index[i] = k])
  BY DEF Quiet, IsDb
<1>2. Quiet(Moved(u, r, i, k))
  BY <1>1 DEF Moved
<1>3. Quiet(ResetSearch(u, r, i))
  <2> DEFINE v == [u EXCEPT !.open[r].search = 0]
  <2>1. Quiet(v)
    BY DEF Quiet, IsDb
  <2>2. Quiet([v EXCEPT !.open[r].index[i] = 0])
    <3> HIDE DEF v
    <3> QED BY <2>1 DEF Quiet, IsDb
  <2> QED BY <2>2 DEF ResetSearch
<1> QED BY <1>2, <1>3

\* The database itself, and with a search index moved, is quiet.
LEMMA QuietDb ==
  /\ Quiet(Db)
  /\ \A r, k : Quiet([Db EXCEPT !.open[r].search = k])
<1>1. Quiet(Db)
  BY DbIs DEF Quiet
<1> HIDE DEF Db
<1>2. ASSUME NEW r, NEW k PROVE Quiet([Db EXCEPT !.open[r].search = k])
  BY <1>1 DEF Quiet, IsDb
<1> QED BY <1>1, <1>2

\* A target is created and opened, or there is an error and nothing changes.
LEMMA PrepareStep ==
  ASSUME NEW u, Quiet(u), PrepareTarget(u), pc = "call"
  PROVE  Refused \/ Prepared \/ Stuck
<1> DEFINE attrs == TargetAttrs(u, call)
           error == CreateError(u, call.target, attrs)
           w     == createRel(u, call.target, attrs)
           v     == openRel(w, call.target)
<1>1. CASE SetDb(u) /\ \E e \in {"E_RELEXIST", "E_DUPLICATEATTR", "E_MAXRELATIONS",
                                 "E_DISKFULL", "E_CACHEFULL"} : Finish(e)
  BY <1>1, SetDbIs DEF Finish, Refused, Goes, Quiet
<1>2. CASE /\ error = "SUCCESS" /\ SetDb(ResetFor(v, call)) /\ pc' = "scan"
           /\ UNCHANGED <<query, call, row, ret, old, lost>>
  <2>1. call.target \notin DOMAIN rels
    BY <1>2 DEF CreateError, Quiet
  <2>2. /\ IsDb(w) /\ Like(u, w, {call.target}) /\ SameOpen(u, w)
        /\ DOMAIN w.rels = DOMAIN u.rels \cup {call.target}
    BY CreateCall DEF Quiet
  <2> HIDE DEF w
  <2>3. IsDb(v) /\ v.rels = w.rels /\ DOMAIN v.open = DOMAIN w.open \cup {call.target}
    BY <2>2, OpenCall
  <2> HIDE DEF v
  <2> DEFINE x == ResetFor(v, call)
  <2>4. x.rels = v.rels /\ DOMAIN x.open = DOMAIN v.open
    <3>1. CASE call.kind = "select"
      <4> DEFINE i == AttrNo(v, call.src, call.attr)
                 y == [v EXCEPT !.open[call.src].search = 0]
      <4>1. x = [y EXCEPT !.open[call.src].index[i] = 0]
        BY <3>1 DEF ResetFor, ResetSearch
      <4>2. IsDb(y) /\ y.rels = v.rels /\ SameOpen(v, y)
        BY <2>3 DEF IsDb, SameOpen
      <4> HIDE DEF x, y, i
      <4>3. x.rels = y.rels /\ SameOpen(y, x)
        BY <4>1, <4>2 DEF IsDb, SameOpen
      <4> QED BY <4>2, <4>3 DEF SameOpen
    <3>2. CASE call.kind # "select"
      <4>1. x = [v EXCEPT !.open[call.src].search = 0]
        BY <3>2 DEF ResetFor
      <4> HIDE DEF x
      <4> QED BY <4>1, <2>3 DEF IsDb
    <3> QED BY <3>1, <3>2
  <2>5. rels' = x.rels /\ open' = x.open
    BY <1>2, SetDbIs
  <2> HIDE DEF x
  <2>6. rels' = w.rels /\ DOMAIN open' = DOMAIN u.open \cup {call.target}
    BY <2>2, <2>3, <2>4, <2>5 DEF SameOpen
  <2> QED BY <1>2, <2>1, <2>2, <2>6 DEF Prepared, Goes, Keeps, Like, Quiet
<1>3. error \in {"SUCCESS", "E_RELEXIST", "E_DUPLICATEATTR", "E_MAXRELATIONS"}
  BY DEF CreateError
<1>4. CASE SetDb(w) /\ lost' = TRUE /\ UNCHANGED control
  <2>1. SameOpen(u, w) /\ DOMAIN w.rels = DOMAIN u.rels \cup {call.target}
    BY CreateCall DEF Quiet
  <2> HIDE DEF w
  <2>2. DOMAIN rels' = DOMAIN rels \cup {call.target} /\ DOMAIN open' = DOMAIN open
    BY <1>4, <2>1, SetDbIs DEF SameOpen, Quiet
  <2> QED BY <1>4, <2>2 DEF Stuck, Goes, control
<1> QED BY <1>1, <1>2, <1>3, <1>4 DEF PrepareTarget, OpenFails

\* A record goes into the target or is lost, or the target goes.
LEMMA InsertStep ==
  ASSUME NEW u, Quiet(u), NEW rec, InsertInto(u, rec)
  PROVE  Extended \/ Undone
<1> DEFINE t == call.target
<1>1. CASE ~NoBlock(u, t)
  <2> DEFINE v == insert(u, t, rec)
  <2>1. SetDb(v) /\ Goes /\ pc' = pc
    BY <1>1 DEF InsertInto, Goes, control
  <2>2. IsDb(v) /\ Like(u, v, {t}) /\ DOMAIN v.rels = DOMAIN u.rels /\ v.open = u.open
    BY InsertCall DEF Quiet
  <2> HIDE DEF v
  <2> QED BY <2>1, <2>2, SetDbIs DEF Extended, Keeps, Like, Quiet
<1>2. CASE SetDb(deleteRel(closeRel(u, t), t)) /\ Finish("E_DISKFULL")
  <2> DEFINE w == closeRel(u, t)
             v == deleteRel(w, t)
  <2>1. SetDb(v) /\ Finish("E_DISKFULL")
    BY <1>2
  <2>2. /\ IsDb(w) /\ Like(u, w, {t}) /\ DOMAIN w.rels = DOMAIN u.rels
        /\ DOMAIN w.open = DOMAIN u.open \ {t}
    BY CloseCall DEF Quiet
  <2> HIDE DEF w
  <2>3. Like(w, v, {t}) /\ v.open = w.open /\ DOMAIN v.rels = DOMAIN w.rels \ {t}
    BY <2>2, DeleteCall
  <2> HIDE DEF v
  <2>4. rels' = v.rels /\ open' = v.open
    BY <2>1, SetDbIs
  <2> QED BY <2>1, <2>2, <2>3, <2>4 DEF Finish, Undone, Goes, Keeps, Like, Quiet
<1>3. CASE SetDb(u) /\ UNCHANGED control
  BY <1>3, SetDbIs DEF Extended, Goes, Keeps, Quiet, control
<1> QED BY <1>1, <1>2, <1>3 DEF InsertInto

\* A projection or a selection that has read everything closes its target.
LEMMA CloseStep ==
  ASSUME CloseTarget
  PROVE  Closed
<1> DEFINE t == call.target
           v == closeRel(Db, t)
<1>1. SetDb(v) /\ Finish("SUCCESS")
  BY DEF CloseTarget
<1>2. Like(Db, v, {t}) /\ DOMAIN v.rels = DOMAIN Db.rels /\ DOMAIN v.open = DOMAIN Db.open \ {t}
  BY DbIs, CloseCall
<1> HIDE DEF v
<1>3. rels' = v.rels /\ open' = v.open
  BY <1>1, SetDbIs
<1> QED BY <1>1, <1>2, <1>3, DbIs DEF Finish, Closed, Goes, Keeps, Like

-----------------------------------------------------------------------------
(* The steps of the algebra layer.                                         *)

\* A function that begins is refused, or has its target, unless something is lost.
LEMMA CallStep == Call => pc = "call" /\ ~lost /\ (Refused \/ Prepared \/ Stuck)
<1> SUFFICES ASSUME Call PROVE Refused \/ Prepared \/ Stuck
  BY DEF Call
<1>0. pc = "call"
  BY DEF Call
<1> DEFINE i2 == AttrNo(Db, call.src2, call.attr2)
           u  == bPlusCreate(Db, call.src2, i2)
<1>1. CASE UNCHANGED db /\ \E e : e # "SUCCESS" /\ Finish(e)
  BY <1>1 DEF db, Finish, Refused, Goes
<1>2. CASE PrepareTarget(u)
  <2>1. Quiet(u)
    BY DbIs, IndexCall DEF Quiet, SameOpen
  <2> HIDE DEF u
  <2> QED BY <1>0, <1>2, <2>1, PrepareStep
<1>3. CASE PrepareTarget(Db)
  BY <1>0, <1>3, QuietDb, PrepareStep
<1>4. CASE SetDb(bPlusCreateLost(Db, call.src2, i2)) /\ lost' = TRUE /\ UNCHANGED control
  <2> DEFINE v == bPlusCreateLost(Db, call.src2, i2)
  <2>1. v.rels = rels /\ DOMAIN v.open = DOMAIN open
    BY DbIs, IndexLostCall DEF SameOpen
  <2> HIDE DEF v
  <2>2. rels' = rels /\ DOMAIN open' = DOMAIN open
    BY <1>4, <2>1, SetDbIs DEF v
  <2> QED BY <1>0, <1>4, <2>2 DEF Stuck, Goes, control
<1> QED BY <1>1, <1>2, <1>3, <1>4 DEF Call

\* What a step of a projection can do.
LEMMA ProjectStep ==
  project => pc = "scan" /\ call.kind = "project" /\ (Extended \/ Undone \/ Closed)
<1> SUFFICES ASSUME project PROVE Extended \/ Undone \/ Closed
  BY DEF project
<1> DEFINE u == [Db EXCEPT !.open[call.src].search = NextRecord(call.src)]
           rec(other) ==
             Listed(rels[call.src].attrs, rels[call.src].recs[NextRecord(call.src)],
                    call.list, other)
<1>1. (\E other : InsertInto(u, rec(other))) \/ CloseTarget
  BY DEF project
<1>2. Quiet(u)
  BY QuietDb
<1> HIDE DEF u, rec
<1> QED BY <1>1, <1>2, InsertStep, CloseStep

\* What a step of a selection can do.
LEMMA SelectStep ==
  select => pc = "scan" /\ call.kind = "select" /\ (Extended \/ Undone \/ Closed)
<1> SUFFICES ASSUME select PROVE Extended \/ Undone \/ Closed
  BY DEF select
<1> DEFINE i   == AttrNo(Db, call.src, call.attr)
           k   == Min(Hits(Db, call.src, i, call.op, call.val))
           u   == Moved(Db, call.src, i, k)
           rec == RecordAt(Db, call.src, i, k)
<1>1. InsertInto(u, rec) \/ CloseTarget
  BY DEF select
<1> HIDE DEF i, k
<1>2. Quiet(u)
  BY QuietDb, QuietSearch
<1> HIDE DEF u, rec
<1> QED BY <1>1, <1>2, InsertStep, CloseStep

\* The outer loop of a join touches no relation.
LEMMA OuterStep ==
  joinOuter =>
    /\ pc = "scan" /\ call.kind = "join" /\ Goes
    /\ rels' = rels /\ DOMAIN open' = DOMAIN open
    /\ pc' = "match" \/ (pc' = "back" /\ ret' = "SUCCESS")
<1> SUFFICES ASSUME joinOuter
    PROVE  /\ Goes /\ rels' = rels /\ DOMAIN open' = DOMAIN open
           /\ pc' = "match" \/ (pc' = "back" /\ ret' = "SUCCESS")
  BY DEF joinOuter
<1> DEFINE i2 == AttrNo(Db, call.src2, call.attr2)
           u  == [Db EXCEPT !.open[call.src].search = NextRecord(call.src)]
           v  == ResetSearch(u, call.src2, i2)
<1>1. \/ SetDb(v) /\ pc' = "match" /\ UNCHANGED <<query, call, ret, old, lost>>
      \/ Finish("SUCCESS") /\ UNCHANGED db
  BY DEF joinOuter
<1>2. Quiet(u)
  BY QuietDb
<1> HIDE DEF i2, u
<1>3. Quiet(v)
  BY <1>2, QuietSearch
<1> HIDE DEF v
<1> QED BY <1>1, <1>3, SetDbIs DEF Quiet, Finish, Goes, db

\* What a step of the inner loop of a join can do.
LEMMA InnerStep ==
  joinInner =>
    /\ pc = "match"
    /\ \/ Extended \/ Undone
       \/ pc' = "scan" /\ Goes /\ rels' = rels /\ open' = open
<1> SUFFICES ASSUME joinInner
    PROVE  \/ Extended \/ Undone
           \/ pc' = "scan" /\ Goes /\ rels' = rels /\ open' = open
  BY DEF joinInner
<1> DEFINE i2  == AttrNo(Db, call.src2, call.attr2)
           rec == rels[call.src].recs[row]
           k   == Min(Hits(Db, call.src2, i2, "EQ", rec[AttrNo(Db, call.src, call.attr)]))
           u   == Moved(Db, call.src2, i2, k)
           new == rec \o RemoveAt(RecordAt(Db, call.src2, i2, k), i2)
<1>1. InsertInto(u, new) \/ (pc' = "scan" /\ UNCHANGED <<db, query, call, ret, old, lost>>)
  BY DEF joinInner
<1> HIDE DEF i2, k
<1>2. Quiet(u)
  BY QuietDb, QuietSearch
<1> HIDE DEF u, new
<1> QED BY <1>1, <1>2, InsertStep DEF Goes, db

-----------------------------------------------------------------------------
(* They keep the invariant.                                                *)

\* A function that is refused has changed nothing.
LEMMA RefusedKeeps ==
  ASSUME IInv, pc = "call", ~lost, Refused
  PROVE  IInv'
BY DEF IInv, Refused, Goes, OpenExist, Running, Called, Filling, Failed, Succeeded,
       TargetsClosed, Base, Temps, Same

\* A target that was prepared is new.
LEMMA PreparedKeeps ==
  ASSUME IInv, pc = "call", ~lost, Prepared
  PROVE  IInv'
<1> DEFINE t == call.target
<1>1. DOMAIN open = Base /\ Same(Temps) /\ Base \subseteq DOMAIN rels
  BY DEF IInv, Called, OpenExist
<1>2. t \notin Base /\ t \notin DOMAIN old.rels
  BY <1>1 DEF Same, Base, Prepared
<1>3. Base' = Base /\ Temps' = Temps /\ call' = call /\ query' = query /\ old' = old
  BY DEF Base, Temps, Prepared, Goes
<1>4. Same(Temps \cup {t})'
  BY <1>1, <1>3 DEF Same, Prepared, Keeps
<1>5. Filling'
  BY <1>1, <1>2, <1>3, <1>4 DEF Filling, Prepared
<1>6. OpenExist'
  BY DEF IInv, OpenExist, Prepared
<1>7. Running'
  BY <1>3 DEF IInv, Running
<1> QED BY <1>5, <1>6, <1>7 DEF IInv, Called, Failed, Succeeded, TargetsClosed, Prepared

\* If something is lost before there is a target, that was all.
LEMMA StuckKeeps ==
  ASSUME IInv, pc = "call", Stuck
  PROVE  IInv'
BY DEF IInv, Stuck, Goes, OpenExist, Running, Called, Filling, Failed, Succeeded, TargetsClosed

\* A record more in the target.
LEMMA InsertedKeeps ==
  ASSUME IInv, pc \in {"scan", "match"}, Extended
  PROVE  IInv'
<1> DEFINE t == call.target
<1>1. /\ DOMAIN open = Base \cup {t} /\ t \notin Base /\ t \notin DOMAIN old.rels
      /\ Same(Temps \cup {t}) /\ (pc = "match" => call.kind = "join")
  BY DEF IInv, Filling
<1>2. Base' = Base /\ Temps' = Temps /\ call' = call /\ query' = query /\ old' = old
  BY DEF Base, Temps, Extended, Goes
<1>3. Same(Temps \cup {t})'
  BY <1>1, <1>2 DEF Same, Extended, Keeps
<1>4. Filling'
  BY <1>1, <1>2, <1>3 DEF Filling, Extended
<1>5. OpenExist'
  BY DEF IInv, OpenExist, Extended
<1>6. Running'
  BY <1>2 DEF IInv, Running, Extended
<1> QED BY <1>4, <1>5, <1>6 DEF IInv, Called, Failed, Succeeded, TargetsClosed, Extended

\* A failed insertion leaves no trace of the target.
LEMMA UndoneKeeps ==
  ASSUME IInv, pc \in {"scan", "match"}, Undone
  PROVE  IInv'
<1> DEFINE t == call.target
<1>1. /\ DOMAIN open = Base \cup {t} /\ t \notin Base /\ t \notin DOMAIN old.rels
      /\ Same(Temps \cup {t})
  BY DEF IInv, Filling
<1>2. Base' = Base /\ Temps' = Temps /\ call' = call /\ query' = query /\ old' = old
  BY DEF Base, Temps, Undone, Goes
<1>3. Same(Temps)'
  BY <1>1, <1>2 DEF Same, Undone, Keeps
<1>4. Failed'
  BY <1>1, <1>2, <1>3 DEF Failed, Undone
<1>5. OpenExist'
  BY DEF IInv, OpenExist, Undone
<1>6. Running'
  BY <1>2 DEF IInv, Running
<1> QED BY <1>4, <1>5, <1>6 DEF IInv, Called, Filling, Succeeded, TargetsClosed, Undone

\* A projection or selection ends with its target closed.
LEMMA ClosedKeeps ==
  ASSUME IInv, pc = "scan", call.kind # "join", Closed
  PROVE  IInv'
<1> DEFINE t == call.target
<1>1. /\ DOMAIN open = Base \cup {t} /\ t \notin Base
      /\ Same(Temps \cup {t}) /\ DOMAIN open \subseteq DOMAIN rels
  BY DEF IInv, Filling, OpenExist
<1>2. Base' = Base /\ Temps' = Temps /\ call' = call /\ query' = query /\ old' = old
  BY DEF Base, Temps, Closed, Goes
<1>3. Same(Temps \cup {t})'
  BY <1>1, <1>2 DEF Same, Closed, Keeps
<1>4. Succeeded'
  BY <1>1, <1>2, <1>3 DEF Succeeded, Closed
<1>5. OpenExist'
  BY DEF IInv, OpenExist, Closed
<1>6. Running'
  BY <1>2 DEF IInv, Running
<1> QED BY <1>4, <1>5, <1>6 DEF IInv, Called, Filling, Failed, TargetsClosed, Closed

\* The loops of a join move between records, and leave the target open.
LEMMA LoopKeeps ==
  ASSUME IInv, pc \in {"scan", "match"}, call.kind = "join", Goes,
         rels' = rels, DOMAIN open' = DOMAIN open,
         pc' \in {"scan", "match"} \/ (pc' = "back" /\ ret' = "SUCCESS")
  PROVE  IInv'
<1> DEFINE t == call.target
<1>1. /\ DOMAIN open = Base \cup {t} /\ t \notin Base /\ t \notin DOMAIN old.rels
      /\ Same(Temps \cup {t}) /\ DOMAIN open \subseteq DOMAIN rels
  BY DEF IInv, Filling, OpenExist
<1>2. Base' = Base /\ Temps' = Temps /\ call' = call /\ query' = query /\ old' = old
  BY DEF Base, Temps, Goes
<1>3. Same(Temps \cup {t})'
  BY <1>1, <1>2 DEF Same
<1>4. Filling' /\ Succeeded'
  BY <1>1, <1>2, <1>3 DEF Filling, Succeeded
<1>5. OpenExist'
  BY DEF IInv, OpenExist
<1>6. Running'
  BY <1>2 DEF IInv, Running
<1> QED BY <1>4, <1>5, <1>6 DEF IInv, Called, Failed, TargetsClosed

-----------------------------------------------------------------------------
(* The steps of the front end and the commands of one call.                *)

\* The two functions of a query that needs two.
LEMMA Functions ==
  ASSUME NEW q \in Queries, Composite(q)
  PROVE  /\ First(q).kind = q.kind /\ First(q).target = Temp(q)
         /\ Second(q).kind = "project" /\ q.kind \in {"select", "join"}
         /\ First(q) # Second(q)
<1>1. q = [kind |-> q.kind, src |-> q.src, src2 |-> q.src2, target |-> q.target,
           attr |-> q.attr, attr2 |-> q.attr2, op |-> q.op, val |-> q.val,
           list |-> q.list]
  BY AlgebraAssumption
<1>2. q.kind \in {"select", "join"}
  BY AlgebraAssumption DEF Composite
<1>3. First(q).kind = q.kind /\ First(q).target = Temp(q)
  BY <1>1 DEF First
<1>4. Second(q).kind = "project"
  BY DEF Second, Query, NoQuery
<1> QED BY <1>2, <1>3, <1>4

\* A query of one function ends with that function.
LEMMA SingleKeeps ==
  ASSUME IInv, SingleReturns
  PROVE  IInv'
<1>1. /\ pc = "back" /\ pc' = "done" /\ ~Composite(query) /\ query' = query
      /\ call' = call /\ old' = old /\ rels' = rels /\ open' = open
  BY DEF SingleReturns, Reply, db
<1>2. query \in Queries /\ call = First(query)
  BY <1>1 DEF IInv, Running
<1>3. Temps = {} /\ Base = old.open /\ call = query
  BY <1>1, <1>2 DEF Temps, Base, First
<1>4. query.kind = "join" => query.list = <<>>
  BY <1>1 DEF Composite
<1>5. DOMAIN open = old.open \cup (IF query.kind = "join" /\ ret = "SUCCESS"
                                   THEN {query.target} ELSE {})
  BY <1>1, <1>3 DEF IInv, Failed, Succeeded
<1>6. TargetsClosed'
  BY <1>1, <1>4, <1>5 DEF TargetsClosed
<1>7. OpenExist' /\ Running'
  BY <1>1, <1>2 DEF IInv, OpenExist, Running
<1> QED BY <1>1, <1>6, <1>7 DEF IInv, Called, Filling, Failed, Succeeded

\* The second function begins with the result of the first open.
LEMMA FirstKeeps ==
  ASSUME IInv, FirstReturns
  PROVE  IInv'
<1> DEFINE temp == Temp(query)
<1>1. /\ pc = "back" /\ Composite(query) /\ call = First(query) /\ query \in Queries
      /\ Temps = {} /\ Base = old.open
  BY DEF FirstReturns, IInv, Running, Temps, Base
<1>2. call.kind = query.kind /\ call.target = temp /\ Second(query) # call
  BY <1>1, Functions
<1>3. CASE ret # "SUCCESS" /\ Reply(ret) /\ UNCHANGED db
  <2>1. /\ pc' = "done" /\ query' = query /\ call' = call /\ old' = old
        /\ rels' = rels /\ open' = open
    BY <1>3 DEF Reply, db
  <2>2. DOMAIN open = old.open
    BY <1>1, <1>3 DEF IInv, Failed
  <2>3. TargetsClosed' /\ OpenExist' /\ Running'
    BY <1>1, <2>1, <2>2 DEF TargetsClosed, IInv, OpenExist, Running
  <2> QED BY <2>1, <2>3 DEF IInv, Called, Filling, Failed, Succeeded
<1>4. CASE /\ ret = "SUCCESS" /\ call' = Second(query) /\ pc' = "call"
           /\ UNCHANGED <<query, row, ret, old, lost>>
           /\ SetDb(IF query.kind = "select" THEN openRel(Db, temp) ELSE Db)
  <2>1. /\ temp \in DOMAIN rels /\ temp \notin old.open /\ Same({temp})
        /\ DOMAIN open = old.open \cup (IF query.kind = "join" THEN {temp} ELSE {})
        /\ DOMAIN open \subseteq DOMAIN rels
    BY <1>1, <1>2, <1>4 DEF IInv, Succeeded, OpenExist
  <2>2. rels' = rels /\ DOMAIN open' = old.open \cup {temp}
    <3>1. CASE query.kind = "select"
      <4> DEFINE v == openRel(Db, temp)
      <4>1. v.rels = rels /\ DOMAIN v.open = DOMAIN open \cup {temp}
        BY DbIs, OpenCall
      <4>2. SetDb(v)
        BY <1>4, <3>1
      <4> HIDE DEF v
      <4> QED BY <2>1, <3>1, <4>1, <4>2, SetDbIs
    <3>2. CASE query.kind = "join"
      <4>1. SetDb(Db)
        BY <1>4, <3>2
      <4> QED BY <2>1, <3>2, <4>1, SetDbIs, DbIs
    <3> QED BY <1>1, <3>1, <3>2, Functions
  <2>3. /\ query' = query /\ old' = old /\ call' # First(query)
        /\ Temps' = {temp} /\ Base' = old.open \cup {temp}
    BY <1>1, <1>2, <1>4 DEF Temps, Base
  <2>4. Same(Temps)'
    BY <2>1, <2>2, <2>3 DEF Same
  <2>5. Called' /\ OpenExist'
    BY <2>1, <2>2, <2>3, <2>4 DEF Called, OpenExist
  <2>6. Running'
    BY <1>1, <1>4, <2>1 DEF Running
  <2> QED BY <1>4, <2>5, <2>6 DEF IInv, Filling, Failed, Succeeded, TargetsClosed
<1> QED BY <1>3, <1>4 DEF FirstReturns

\* After the second the temporary relation is gone, or stays open.
LEMMA SecondKeeps ==
  ASSUME IInv, SecondReturns
  PROVE  IInv'
<1> DEFINE temp == Temp(query)
           w    == closeRel(Db, temp)
           v    == deleteRel(w, temp)
<1>1. /\ pc = "back" /\ Composite(query) /\ call = Second(query) /\ Reply(ret)
      /\ query \in Queries
  BY DEF SecondReturns, IInv, Running
<1>2. /\ call # First(query) /\ call.kind = "project" /\ temp \notin old.open
      /\ query.kind \in {"select", "join"} /\ query.list # <<>>
  BY <1>1, Functions DEF IInv, Running, Composite
<1>3. DOMAIN open = old.open \cup {temp} /\ DOMAIN open \subseteq DOMAIN rels
  BY <1>1, <1>2 DEF IInv, Failed, Succeeded, Base, Temps, OpenExist
<1>4. pc' = "done" /\ query' = query /\ call' = call /\ old' = old /\ ret' = ret
  BY <1>1 DEF Reply
<1>5. CASE query.kind = "select" /\ ret # "SUCCESS"
  <2>1. rels' = rels /\ open' = open
    BY <1>5 DEF SecondReturns, db
  <2>2. temp = "temp"
    BY <1>5 DEF Temp
  <2>3. TargetsClosed' /\ OpenExist'
    BY <1>2, <1>3, <1>4, <1>5, <2>1, <2>2 DEF TargetsClosed, OpenExist
  <2>4. Running'
    BY <1>1, <1>2, <1>4 DEF Running
  <2> QED BY <1>4, <2>3, <2>4 DEF IInv, Called, Filling, Failed, Succeeded
<1>6. CASE ~ (query.kind = "select" /\ ret # "SUCCESS")
  <2>1. SetDb(v)
    BY <1>6 DEF SecondReturns
  <2>2. /\ IsDb(w) /\ DOMAIN w.rels = DOMAIN rels /\ DOMAIN w.open = DOMAIN open \ {temp}
    BY DbIs, CloseCall
  <2> HIDE DEF w
  <2>3. v.open = w.open /\ DOMAIN v.rels = DOMAIN w.rels \ {temp}
    BY <2>2, DeleteCall
  <2> HIDE DEF v
  <2>4. DOMAIN open' = old.open /\ DOMAIN rels' = DOMAIN rels \ {temp}
    BY <1>2, <1>3, <2>1, <2>2, <2>3, SetDbIs
  <2>5. TargetsClosed' /\ OpenExist'
    BY <1>2, <1>3, <1>4, <2>4 DEF TargetsClosed, OpenExist
  <2>6. Running'
    BY <1>1, <1>2, <1>4 DEF Running
  <2> QED BY <1>4, <2>5, <2>6 DEF IInv, Called, Filling, Failed, Succeeded
<1> QED BY <1>5, <1>6

\* Between queries only the relations that are open matter.
LEMMA BetweenKeeps ==
  ASSUME pc' = "idle", OpenExist'
  PROVE  IInv'
BY DEF IInv, Running, Called, Filling, Failed, Succeeded, TargetsClosed

\* A query begins with the relations it finds.
LEMMA BeginKeeps ==
  ASSUME IInv, NEW q \in Queries, Begin(q)
  PROVE  IInv'
<1>1. /\ pc' = "call" /\ query' = q /\ call' = First(q) /\ rels' = rels /\ open' = open
      /\ old' = [rels |-> Contents, open |-> DOMAIN open]
  BY DEF Begin, db
<1>2. Temps' = {} /\ Base' = DOMAIN open
  BY <1>1 DEF Temps, Base
<1>3. /\ DOMAIN Contents = DOMAIN rels
      /\ \A r \in DOMAIN rels : Contents[r] = <<rels[r].attrs, rels[r].recs>>
  BY DEF Contents
<1>4. Same(Temps)'
  <2> HIDE DEF Contents
  <2> QED BY <1>1, <1>2, <1>3 DEF Same
<1>5. Called' /\ Running' /\ OpenExist'
  BY <1>1, <1>2, <1>4 DEF IInv, Called, Running, OpenExist
<1> QED BY <1>1, <1>5 DEF IInv, Filling, Failed, Succeeded, TargetsClosed

\* The commands of one call.
LEMMA CommandKeeps ==
  ASSUME IInv,
         \/ \E r \in DOMAIN Schemas : CreateRel(r) \/ Insert(r)
         \/ \E r \in DOMAIN rels : DropRel(r) \/ OpenRel(r) \/ CloseRel(r)
         \/ \E p \in Indexes : CreateIndex(p[1], p[2]) \/ DropIndex(p[1], p[2])
         \/ \E p \in Renames : RenameAttr(p[1], p[2], p[3])
  PROVE  IInv'
<1>1. DOMAIN open \subseteq DOMAIN rels
  BY DEF IInv, OpenExist
<1> SUFFICES /\ pc' = "idle" /\ DOMAIN open' \subseteq DOMAIN rels'
  BY BetweenKeeps DEF OpenExist
<1> USE DEF Idle, control
<1>2. ASSUME NEW r \in DOMAIN Schemas, CreateRel(r)
      PROVE  pc' = "idle" /\ DOMAIN open' \subseteq DOMAIN rels'
  <2> DEFINE v == createRel(Db, r, Schemas[r])
  <2>1. SetDb(v) /\ pc' = "idle"
    BY <1>2 DEF CreateRel
  <2>2. DOMAIN v.open = DOMAIN open /\ DOMAIN v.rels = DOMAIN rels \cup {r}
    BY DbIs, CreateCall DEF SameOpen
  <2> HIDE DEF v
  <2> QED BY <1>1, <2>1, <2>2, SetDbIs
<1>3. ASSUME NEW r \in DOMAIN Schemas, Insert(r)
      PROVE  pc' = "idle" /\ DOMAIN open' \subseteq DOMAIN rels'
  <2> DEFINE rec == RowsOf[r][Len(rels[r].recs) + 1]
             v   == insert(Db, r, rec)
             w   == insertLost(Db, r, rec)
  <2>1. (SetDb(v) \/ SetDb(w)) /\ pc' = "idle"
    BY <1>3 DEF Insert
  <2> HIDE DEF rec
  <2>2. v.open = open /\ DOMAIN v.rels = DOMAIN rels
    BY DbIs, InsertCall
  <2>3. w.open = open /\ w.rels = rels
    BY DbIs, InsertLostCall
  <2> HIDE DEF v, w
  <2> QED BY <1>1, <2>1, <2>2, <2>3, SetDbIs
<1>4. ASSUME NEW r \in DOMAIN rels, DropRel(r)
      PROVE  pc' = "idle" /\ DOMAIN open' \subseteq DOMAIN rels'
  <2> DEFINE v == deleteRel(Db, r)
  <2>1. SetDb(v) /\ pc' = "idle" /\ r \notin DOMAIN open
    BY <1>4 DEF DropRel
  <2>2. v.open = open /\ DOMAIN v.rels = DOMAIN rels \ {r}
    BY <2>1, DbIs, DeleteCall
  <2> HIDE DEF v
  <2> QED BY <1>1, <2>1, <2>2, SetDbIs
<1>5. ASSUME NEW r \in DOMAIN rels, OpenRel(r)
      PROVE  pc' = "idle" /\ DOMAIN open' \subseteq DOMAIN rels'
  <2> DEFINE v == openRel(Db, r)
  <2>1. SetDb(v) /\ pc' = "idle"
    BY <1>5 DEF OpenRel
  <2>2. v.rels = rels /\ DOMAIN v.open = DOMAIN open \cup {r}
    BY DbIs, OpenCall
  <2> HIDE DEF v
  <2> QED BY <1>1, <2>1, <2>2, SetDbIs
<1>6. ASSUME NEW r \in DOMAIN rels, CloseRel(r)
      PROVE  pc' = "idle" /\ DOMAIN open' \subseteq DOMAIN rels'
  <2> DEFINE v == closeRel(Db, r)
  <2>1. SetDb(v) /\ pc' = "idle"
    BY <1>6 DEF CloseRel
  <2>2. DOMAIN v.rels = DOMAIN rels /\ DOMAIN v.open = DOMAIN open \ {r}
    BY DbIs, CloseCall
  <2> HIDE DEF v
  <2> QED BY <1>1, <2>1, <2>2, SetDbIs
<1>7. ASSUME NEW p \in Indexes, CreateIndex(p[1], p[2])
      PROVE  pc' = "idle" /\ DOMAIN open' \subseteq DOMAIN rels'
  <2> DEFINE v == bPlusCreate(Db, p[1], AttrNo(Db, p[1], p[2]))
             w == bPlusCreateLost(Db, p[1], AttrNo(Db, p[1], p[2]))
  <2>1. (SetDb(v) \/ SetDb(w)) /\ pc' = "idle"
    BY <1>7 DEF CreateIndex
  <2>2. /\ v.rels = rels /\ DOMAIN v.open = DOMAIN open
        /\ w.rels = rels /\ DOMAIN w.open = DOMAIN open
    BY DbIs, IndexCall, IndexLostCall DEF SameOpen
  <2> HIDE DEF v, w
  <2> QED BY <1>1, <2>1, <2>2, SetDbIs
<1>8. ASSUME NEW p \in Indexes, DropIndex(p[1], p[2])
      PROVE  pc' = "idle" /\ DOMAIN open' \subseteq DOMAIN rels'
  <2> DEFINE i == AttrNo(Db, p[1], p[2])
             w == setAttrCatEntry(Db, p[1], open[p[1]].roots \ {i})
             v == [w EXCEPT !.trees = Without(@, {<<p[1], i>>})]
  <2>1. SetDb(v) /\ pc' = "idle"
    BY <1>8 DEF DropIndex
  <2>2. IsDb(w) /\ w.rels = rels /\ DOMAIN w.open = DOMAIN open
    BY DbIs DEF setAttrCatEntry, IsDb
  <2>3. v.rels = w.rels /\ v.open = w.open
    <3> HIDE DEF w
    <3> QED BY <2>2 DEF IsDb
  <2> HIDE DEF v, w
  <2> QED BY <1>1, <2>1, <2>2, <2>3, SetDbIs
<1>9. ASSUME NEW p \in Renames, RenameAttr(p[1], p[2], p[3])
      PROVE  pc' = "idle" /\ DOMAIN open' \subseteq DOMAIN rels'
  <2> DEFINE v == renameAttribute(Db, p[1], p[2], p[3])
  <2>1. SetDb(v) /\ pc' = "idle"
    BY <1>9 DEF RenameAttr
  <2>2. DOMAIN v.rels = DOMAIN rels /\ v.open = open
    BY DbIs DEF renameAttribute, IsDb
  <2> HIDE DEF v
  <2> QED BY <1>1, <2>1, <2>2, SetDbIs
<1> QED BY <1>2, <1>3, <1>4, <1>5, <1>6, <1>7, <1>8, <1>9

-----------------------------------------------------------------------------
(* Theorems.                                                               *)

\* The inductive invariant holds in every reachable state.
LEMMA IInvHolds == Spec => []IInv
<1>1. Init => IInv
  BY DEF Init, IInv, OpenExist, Running, Called, Filling, Failed, Succeeded, TargetsClosed
<1>2. IInv /\ [Next]_vars => IInv'
  <2> SUFFICES ASSUME IInv, [Next]_vars PROVE IInv'
    OBVIOUS
  <2>1. CASE UNCHANGED vars
    BY <2>1 DEF vars, IInv, OpenExist, Running, Called, Filling, Failed, Succeeded,
                TargetsClosed, Base, Temps, Same
  <2>2. ASSUME NEW q \in Queries, Begin(q) PROVE IInv'
    BY <2>2, BeginKeeps
  <2>3. CASE Call
    BY <2>3, CallStep, RefusedKeeps, PreparedKeeps, StuckKeeps
  <2>4. CASE project
    BY <2>4, ProjectStep, InsertedKeeps, UndoneKeeps, ClosedKeeps
  <2>5. CASE select
    BY <2>5, SelectStep, InsertedKeeps, UndoneKeeps, ClosedKeeps
  <2>6. CASE joinOuter
    BY <2>6, OuterStep, LoopKeeps
  <2>7. CASE joinInner
    <3>1. pc = "match" /\ call.kind = "join"
      BY <2>7, InnerStep DEF IInv, Filling
    <3> QED BY <2>7, <3>1, InnerStep, InsertedKeeps, UndoneKeeps, LoopKeeps
  <2>8. CASE SingleReturns \/ FirstReturns \/ SecondReturns
    BY <2>8, SingleKeeps, FirstKeeps, SecondKeeps
  <2>9. CASE NextCommand
    <3>1. pc' = "idle" /\ OpenExist'
      BY <2>9 DEF NextCommand, db, IInv, OpenExist
    <3> QED BY <3>1, BetweenKeeps
  <2> QED BY <2>1, <2>2, <2>3, <2>4, <2>5, <2>6, <2>7, <2>8, <2>9, CommandKeeps
          DEF Next, Step
<1> QED BY <1>1, <1>2, PTL DEF Spec

\* A query leaves open what it found open, and nothing else but the target of a
\* join (Algebra.cpp:675) and "temp" when the projection of a selection failed,
\* wherever the query failed, and whether a full disk was noticed or not.
THEOREM OpenRestored == Spec => []TargetsClosed
<1>1. IInv => TargetsClosed
  BY DEF IInv
<1> QED BY <1>1, IInvHolds, PTL

\* A function of the algebra layer that fails undoes what it did to its target,
\* at whichever record it failed; one that succeeds changes no other relation,
\* also when the disk was full and a record went nowhere.
THEOREM FailureUndone == Spec => []OthersKept
<1>1. IInv => OthersKept
  <2> SUFFICES ASSUME IInv, pc = "back"
      PROVE  LET changed == (IF ret = "SUCCESS" THEN {call.target} ELSE {})
                              \cup (IF call # First(query) THEN {call.src} ELSE {})
             IN Without(Contents, changed) = Without(old.rels, changed)
    BY DEF OthersKept
  <2> DEFINE changed == (IF ret = "SUCCESS" THEN {call.target} ELSE {})
                          \cup (IF call # First(query) THEN {call.src} ELSE {})
  <2>1. Temps = IF call # First(query) THEN {call.src} ELSE {}
    <3>1. CASE call = First(query)
      BY <3>1 DEF Temps
    <3>2. CASE call = Second(query) /\ call # First(query)
      BY <3>2 DEF Temps, Second, Query, NoQuery
    <3> QED BY <3>1, <3>2 DEF IInv, Running
  <2>2. Same(changed)
    BY <2>1 DEF IInv, Failed, Succeeded
  <2> HIDE DEF changed
  <2>3. /\ DOMAIN Contents = DOMAIN rels
        /\ \A r \in DOMAIN rels : Contents[r] = <<rels[r].attrs, rels[r].recs>>
    BY DEF Contents
  <2>4. Without(Contents, changed) = Without(old.rels, changed)
    <3> HIDE DEF Contents
    <3> QED BY <2>2, <2>3 DEF Same, Without, Restrict
  <2> QED BY <2>4 DEF changed
<1> QED BY <1>1, IInvHolds, PTL

=============================================================================
