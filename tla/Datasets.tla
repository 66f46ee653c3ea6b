------------------------------ MODULE Datasets ------------------------------
(***************************************************************************)
(* Datasets and the cases they name: uploads, appended cases, freezing,    *)
(* and the runs that are launched over them.                               *)
(*                                                                         *)
(* A handler reads what it needs, builds the rows in memory and writes     *)
(* them one at a time; the connection commits every write by itself, so    *)
(* another client may come between any two of them, and a handler that     *)
(* raises or dies leaves the rows it has written.  The reads of a handler  *)
(* are one step here.  After the model, the proofs of what it promises.    *)
(***************************************************************************)
EXTENDS Naturals, FiniteSets, SequencesExt, FiniteSetTheorems, TLAPS

CONSTANTS
    Null,
    Clients,
    CaseIds,
    Bodies,        \* contents of a case
    DatasetIds,
    InlineId,      \* experiment -> the dataset id derived from it
    Offered,       \* the operations the clients use
    Shared,        \* do uploads name the ids of cases that are stored already
    Serial,        \* bound: no request starts before the others have ended
    MaxCalls       \* bound: requests

Experiments == DOMAIN InlineId
VARIABLES
    cases,         \* case id -> [body, exp] or Null
    datasets,      \* dataset id -> its row or Null
    client,        \* what each handler still has to write
    calls,
    appended,      \* history: <<case, dataset>> of the appends answered with success
    ran            \* history: experiment -> the cases its last launch has stored

vars == <<cases, datasets, client, calls, appended, ran>>

Idle == [todo |-> <<>>, busy |-> FALSE, answer |-> Null]

(***************************************************************************)
(* Rows                                                                    *)
(***************************************************************************)

\* EvalCase.model_dump_canonical leaves out version, updated_at and deleted_at: the experiment
\* a case was stamped with is part of it.
CanonicalDump(k, row) == [id |-> k, body |-> row.body, exp |-> row.exp]

compute_manifest_hash(rows) == {CanonicalDump(r.id, r.row) : r \in ToSet(rows)}

compute_statistics(rows) == [total |-> Len(rows)]

\* _no_duplicate_cases
IsDuplicated(ids) == Cardinality(ToSet(ids)) # Len(ids)

Ids(rows) == [i \in 1..Len(rows) |-> rows[i].id]

build_dataset(type, rows, status, source) ==
    [type |-> type, cases |-> Ids(rows), status |-> status, source |-> source,
     hash |-> compute_manifest_hash(rows), stats |-> compute_statistics(rows)]

PutCase(r) == [table |-> "cases", id |-> r.id, row |-> r.row]
PutDataset(d, row) == [table |-> "datasets", id |-> d, row |-> row]
PutCases(rows) == [i \in 1..Len(rows) |-> PutCase(rows[i])]
Raise == [table |-> "raise", id |-> Null, row |-> Null]

\* The cases first, then the manifest over them; building it fails on a repeated id.
persist_dataset(d, type, rows, status, source) ==
    PutCases(rows) \o (IF IsDuplicated(Ids(rows)) THEN <<Raise>>
                       ELSE <<PutDataset(d, build_dataset(type, rows, status, source))>>)

Stored(ids) == [i \in 1..Len(ids) |-> [id |-> ids[i], row |-> cases[ids[i]]]]

\* list_entities: those of the cases that are stored, in the order of the store.
Listed(ids) == Stored(SetToSeq({k \in ToSet(ids) : cases[k] # Null}))

(***************************************************************************)
(* Requests                                                                *)
(***************************************************************************)
Fresh(d) == /\ datasets[d] = Null /\ d \notin {InlineId[e] : e \in Experiments}
            /\ \A c \in Clients : \A w \in ToSet(client[c].todo) :
                  ~(w.table = "datasets" /\ w.id = d)

FreshCase(k) == /\ cases[k] = Null
                /\ \A c \in Clients : \A w \in ToSet(client[c].todo) :
                      ~(w.table = "cases" /\ w.id = k)

Start(c, op) == /\ op \in Offered /\ ~client[c].busy /\ calls < MaxCalls
                /\ Serial => \A d \in Clients : ~client[d].busy
                /\ calls' = calls + 1

Begin(c, todo, answer) ==
    /\ client' = [client EXCEPT ![c] = [todo |-> todo, busy |-> TRUE, answer |-> answer]]
    /\ UNCHANGED <<cases, datasets, appended, ran>>

Named(k, b) == [id |-> k, row |-> [body |-> b, exp |-> Null]]

\* POST .../datasets and .../datasets/upload: a row of the file may carry the id of its case.
create_dataset(c) ==
    /\ Start(c, "upload")
    /\ \E d \in DatasetIds, ks \in {<<k>> : k \in CaseIds} \cup (CaseIds \X CaseIds),
          b \in Bodies, type \in {"regression", "capability"} :
          /\ Fresh(d) /\ (Shared \/ \A k \in ToSet(ks) : FreshCase(k))
          /\ Begin(c, persist_dataset(d, type, [i \in 1..Len(ks) |-> Named(ks[i], b)],
                                      "active", Null), Null)

\* Slip: a frozen dataset is extended in place.
AppendInPlace(d, k, r, target) ==
    LET ds == datasets[d]
        rows == Append(Stored(ds.cases), r)
    IN  <<PutCase(r)>> \o
        (IF IsDuplicated(Ids(rows)) THEN <<Raise>>
         ELSE <<PutDataset(d, [ds EXCEPT !.cases = Ids(rows),
                                         !.hash = compute_manifest_hash(rows),
                                         !.stats = compute_statistics(rows)])>>)

\* The new case is written before its ref is checked for a duplicate.
AppendTodo(d, k, r, target) ==
    LET ds == datasets[d]
        rows == Append(Stored(ds.cases), r)
    IN  IF ds.status = "frozen"
        THEN persist_dataset(target, "regression", rows, "active", d)
        ELSE <<PutCase(r)>> \o
             (IF IsDuplicated(Ids(rows)) THEN <<Raise>>
              ELSE <<PutDataset(d, [ds EXCEPT !.cases = Ids(rows),
                                              !.hash = compute_manifest_hash(rows),
                                              !.stats = compute_statistics(rows)])>>)

\* append_case_to_dataset: only regression datasets, and every case it names must be stored.
append_case_to_dataset(c) ==
    /\ Start(c, "append")
    /\ \E d \in DatasetIds, k \in CaseIds, b \in Bodies, target \in DatasetIds :
          /\ datasets[d] # Null /\ datasets[d].type = "regression"
          /\ \A i \in 1..Len(datasets[d].cases) : cases[datasets[d].cases[i]] # Null
          /\ Shared \/ FreshCase(k)
          /\ IF datasets[d].status = "frozen" THEN Fresh(target) ELSE target = d
          /\ Begin(c, AppendTodo(d, k, Named(k, b), target),
                   [append |-> <<k, target>>])

\* freeze_dataset recomputes the manifest from the cases that are still there.
freeze_dataset(c) ==
    /\ Start(c, "freeze")
    /\ \E d \in DatasetIds :
          /\ datasets[d] # Null
          /\ LET rows == Listed(datasets[d].cases)
                 ds == IF rows = <<>> THEN datasets[d]
                       ELSE [datasets[d] EXCEPT !.hash = compute_manifest_hash(rows),
                                                !.stats = compute_statistics(rows)]
             IN  Begin(c, <<PutDataset(d, [ds EXCEPT !.status = "frozen"])>>, Null)

\* _persist_cases: every case of the run takes the experiment's id.
StampedBy(e, rows) ==
    [i \in 1..Len(rows) |-> [rows[i] EXCEPT !.row.exp = e]]

\* build_loop over `ref:`: the cases are those the dataset names now, in their latest form.
launch_ref(c) ==
    /\ Start(c, "launch")
    /\ \E e \in Experiments, d \in DatasetIds :
          /\ datasets[d] # Null
          /\ LET rows == Listed(datasets[d].cases)
             IN  /\ rows # <<>>
                 /\ Begin(c, PutCases(StampedBy(e, rows)),
                          [launch |-> e, over |-> ToSet(Ids(rows))])

\* build_loop over inline cases: the dataset of the experiment is written anew, and active.
InlineTodo(e, rows) ==
    PutCases(StampedBy(e, rows)) \o
        (IF IsDuplicated(Ids(rows)) THEN <<Raise>>
         ELSE <<PutDataset(InlineId[e],
                           build_dataset("regression", StampedBy(e, rows), "active", Null))>>)

launch_inline(c) ==
    /\ Start(c, "inline")
    /\ \E e \in Experiments, k \in CaseIds, b \in Bodies :
          /\ \/ FreshCase(k) /\ datasets[InlineId[e]] = Null
             \/ datasets[InlineId[e]] # Null /\ datasets[InlineId[e]].cases = <<k>>
          /\ Begin(c, InlineTodo(e, <<Named(k, b)>>), [launch |-> e, over |-> {k}])

(***************************************************************************)
(* Writes                                                                  *)
(***************************************************************************)

\* scope.put_entity: an upsert, committed by itself.
put_entity(c) ==
    /\ client[c].todo # <<>> /\ Head(client[c].todo).table # "raise"
    /\ LET w == Head(client[c].todo) IN
          /\ cases' = IF w.table = "cases" THEN [cases EXCEPT ![w.id] = w.row] ELSE cases
          /\ datasets' = IF w.table = "datasets" THEN [datasets EXCEPT ![w.id] = w.row]
                         ELSE datasets
    /\ client' = [client EXCEPT ![c].todo = Tail(@)]
    /\ UNCHANGED <<calls, appended, ran>>

Raised(c) ==
    /\ client[c].todo # <<>> /\ Head(client[c].todo).table = "raise"
    /\ client' = [client EXCEPT ![c] = Idle]
    /\ UNCHANGED <<cases, datasets, calls, appended, ran>>

Answer(c) ==
    /\ client[c].busy /\ client[c].todo = <<>>
    /\ LET a == client[c].answer IN
          /\ appended' = IF a # Null /\ "append" \in DOMAIN a THEN appended \cup {a.append}
                         ELSE appended
          /\ ran' = IF a # Null /\ "launch" \in DOMAIN a THEN [ran EXCEPT ![a.launch] = a.over]
                    ELSE ran
    /\ client' = [client EXCEPT ![c] = Idle]
    /\ UNCHANGED <<cases, datasets, calls>>

\* The process of a handler ends between two of its writes.
Die(c) ==
    /\ "die" \in Offered /\ client[c].todo # <<>>
    /\ client' = [client EXCEPT ![c] = Idle]
    /\ UNCHANGED <<cases, datasets, calls, appended, ran>>

Init ==
    /\ cases = [k \in CaseIds |-> Null] /\ datasets = [d \in DatasetIds |-> Null]
    /\ client = [c \in Clients |-> Idle] /\ calls = 0
    /\ appended = {} /\ ran = [e \in Experiments |-> {}]

Request(c) == \/ create_dataset(c) \/ append_case_to_dataset(c) \/ freeze_dataset(c)
              \/ launch_ref(c) \/ launch_inline(c)

Next == \E c \in Clients : Request(c) \/ put_entity(c) \/ Raised(c) \/ Answer(c) \/ Die(c)

Spec == Init /\ [][Next]_vars

(***************************************************************************)
(* Properties                                                              *)
(***************************************************************************)
Live == {d \in DatasetIds : datasets[d] # Null}

Quiet == \A c \in Clients : ~client[c].busy

\* A dataset never names a case that is not stored, whoever dies in the middle of a write.
RefsResolve ==
    \A d \in Live : \A k \in ToSet(datasets[d].cases) : cases[k] # Null

\* The manifest and the statistics of a row are those of the cases that row names: what one
\* request has computed is never stored with the case list of another.
ManifestNamesTheRefs ==
    \A d \in Live : /\ {r.id : r \in datasets[d].hash} = ToSet(datasets[d].cases)
                    /\ datasets[d].stats.total = Len(datasets[d].cases)

\* An append that was answered stays in the dataset it was answered for.
AppendedIsThere ==
    \A a \in appended : datasets[a[2]] # Null /\ a[1] \in ToSet(datasets[a[2]].cases)

\* A frozen regression dataset keeps its list of cases and stays frozen.
FrozenStaysAsIs ==
    \A d \in Live :
       datasets[d].status = "frozen" /\ datasets[d].type = "regression" =>
          datasets'[d].status = "frozen" /\ datasets'[d].cases = datasets[d].cases

\* The manifest tells whether the content has changed: when nobody is writing, it is the hash
\* of the stored cases.
ManifestIsCurrent ==
    Quiet => \A d \in Live :
                datasets[d].hash = compute_manifest_hash(Stored(datasets[d].cases))

\* What the code keeps of all that, with the conditions it needs: overlapping requests lose
\* appended cases, an inline run writes its dataset anew, and a launch stamps the stored cases.
DatasetsAreTrue ==
    /\ RefsResolve /\ ManifestNamesTheRefs
    /\ Serial /\ "inline" \notin Offered => AppendedIsThere
    /\ Serial /\ ~Shared /\ {"launch", "inline"} \cap Offered = {} => ManifestIsCurrent
FrozenForGood == Serial /\ "inline" \notin Offered => FrozenStaysAsIs
DatasetsStayTrue == []DatasetsAreTrue /\ [][FrozenForGood]_vars

\* A run that was launched leaves a trace of the cases it ran: they are listed under it.
\* The code does not keep it: a later run stamps the cases with its own experiment.
RunKeepsItsCases ==
    \A e \in Experiments : \A k \in ran[e] : cases[k].exp = e
-----------------------------------------------------------------------------
(* The proofs, for any clients, cases, datasets and requests.                *)

CaseRow == [body : Bodies, exp : Experiments \cup {Null}]
NamedRow == [id : CaseIds, row : CaseRow]
Dump == [id : CaseIds, body : Bodies, exp : Experiments \cup {Null}]
DatasetRow == [type : {"regression", "capability"}, cases : Seq(CaseIds),
               status : {"active", "frozen"}, source : DatasetIds \cup {Null},
               hash : SUBSET Dump, stats : [total : Nat]]

CaseWrite == [table : {"cases"}, id : CaseIds, row : CaseRow]
DatasetWrite == [table : {"datasets"}, id : DatasetIds, row : DatasetRow]
Writes == CaseWrite \cup DatasetWrite \cup {Raise}
Appends == {[append |-> <<k, d>>] : k \in CaseIds, d \in DatasetIds}
Launches == [launch : Experiments, over : SUBSET CaseIds]
Handler == [todo : Seq(Writes), busy : BOOLEAN, answer : {Null} \cup Appends \cup Launches]

(* Null is no row, and the inline datasets have ids of datasets.             *)
DatasetConstants ==
    /\ Null \notin CaseRow /\ Null \notin DatasetRow /\ Null \notin Appends
    /\ \A e \in Experiments : InlineId[e] \in DatasetIds

(* A row whose manifest and statistics are of the cases it names, each once. *)
Sound(row) ==
    /\ {x.id : x \in row.hash} = ToSet(row.cases)
    /\ row.stats.total = Len(row.cases)
    /\ Cardinality(ToSet(row.cases)) = Len(row.cases)

StoredIds(cs) == {k \in CaseIds : cs[k] # Null}
WrittenIds(todo) == {w.id : w \in {v \in ToSet(todo) : v.table = "cases"}}

(* What a handler has still to write, when these cases are stored: cases     *)
(* first, and a manifest last, over cases that are there by then.            *)
PlanFits(todo, there) ==
    /\ \A i \in 1..Len(todo) : todo[i].table # "cases" => i = Len(todo)
    /\ \A w \in ToSet(todo) : w.table = "datasets" =>
          Sound(w.row) /\ ToSet(w.row.cases) \subseteq there \cup WrittenIds(todo)

DatasetsFit ==
    /\ cases \in [CaseIds -> CaseRow \cup {Null}]
    /\ datasets \in [DatasetIds -> DatasetRow \cup {Null}]
    /\ client \in [Clients -> Handler]
    /\ \A c \in Clients : ~client[c].busy => client[c] = Idle
    /\ \A c \in Clients : PlanFits(client[c].todo, StoredIds(cases))
    /\ \A d \in Live : Sound(datasets[d]) /\ ToSet(datasets[d].cases) \subseteq StoredIds(cases)

(* One request at a time: a row that is about to replace another one keeps    *)
(* what that one promises.                                                   *)
Replaces(old, row) ==
    old # Null =>
        /\ ToSet(old.cases) \subseteq ToSet(row.cases)
        /\ old.status = "frozen" /\ old.type = "regression" =>
              row.status = "frozen" /\ row.cases = old.cases

InCases(k, row) == row # Null /\ k \in ToSet(row.cases)

Keeps(h, ds) ==
    /\ \A w \in ToSet(h.todo) : w.table = "datasets" => Replaces(ds[w.id], w.row)
    /\ \A k \in CaseIds, d \in DatasetIds : h.answer = [append |-> <<k, d>>] =>
          \/ Raise \in ToSet(h.todo)
          \/ \E w \in ToSet(h.todo) : w.table = "datasets" /\ w.id = d /\ k \in ToSet(w.row.cases)
          \/ InCases(k, ds[d])

AppendsFit ==
    /\ \A c, d \in Clients : client[c].busy /\ client[d].busy => c = d
    /\ \A c \in Clients : Keeps(client[c], datasets)
    /\ \A a \in appended : \E k \in CaseIds, d \in DatasetIds :
          a = <<k, d>> /\ InCases(k, datasets[d])

(* Without launches and shared cases: whatever is stored or about to be has   *)
(* the manifest of the stored cases.                                         *)
RowOf(x) == [body |-> x.body, exp |-> x.exp]

PlanHashes(cs, todo) ==
    \A w \in ToSet(todo) :
        /\ w.table = "cases" =>
              /\ cs[w.id] = Null \/ cs[w.id] = w.row
              /\ \A v \in ToSet(todo) : v.table = "cases" /\ v.id = w.id => v.row = w.row
        /\ w.table = "datasets" => \A x \in w.row.hash :
              /\ \A v \in ToSet(todo) : v.table = "cases" /\ v.id = x.id => v.row = RowOf(x)
              /\ x.id \notin WrittenIds(todo) => cs[x.id] = RowOf(x)

HashesFit ==
    /\ \A d \in Live : \A x \in datasets[d].hash : cases[x.id] = RowOf(x)
    /\ \A c \in Clients : PlanHashes(cases, client[c].todo)

-----------------------------------------------------------------------------
(* Sequences and the sets of what is in them.                                *)
LEMMA Elements ==
    ASSUME NEW X
    PROVE  /\ ToSet(<<>>) = {} /\ \A x : ToSet(<<x>>) = {x}
           /\ \A s \in Seq(X) : ToSet(s) \subseteq X
           /\ \A s \in Seq(X), x \in X : ToSet(Append(s, x)) = ToSet(s) \cup {x}
           /\ \A s, t \in Seq(X) : ToSet(s \o t) = ToSet(s) \cup ToSet(t)
           /\ \A s \in Seq(X) : s # <<>> => /\ ToSet(s) = {Head(s)} \cup ToSet(Tail(s))
                                            /\ Tail(s) \in Seq(X) /\ Head(s) \in ToSet(s)
<1>1. ToSet(<<>>) = {} /\ \A x : ToSet(<<x>>) = {x}
  BY DEF ToSet
<1>2. \A s \in Seq(X) : ToSet(s) \subseteq X
  BY DEF ToSet
<1>3. ASSUME NEW s \in Seq(X), NEW x \in X PROVE ToSet(Append(s, x)) = ToSet(s) \cup {x}
  <2>1. /\ DOMAIN s = 1..Len(s) /\ DOMAIN Append(s, x) = 1..(Len(s) + 1) /\ Len(s) \in Nat
        /\ \A i \in 1..Len(s) : Append(s, x)[i] = s[i]
        /\ Append(s, x)[Len(s) + 1] = x
    OBVIOUS
  <2>2. ToSet(s) \cup {x} \subseteq ToSet(Append(s, x))
    <3>1. Len(s) + 1 \in DOMAIN Append(s, x) /\ DOMAIN s \subseteq DOMAIN Append(s, x)
      BY <2>1
    <3>. QED  BY <2>1, <3>1 DEF ToSet
  <2>3. \A i \in DOMAIN Append(s, x) : i = Len(s) + 1 \/ i \in DOMAIN s
    BY <2>1
  <2>4. ToSet(Append(s, x)) \subseteq ToSet(s) \cup {x}
    BY <2>1, <2>3 DEF ToSet
  <2>. QED  BY <2>2, <2>4
<1>4. ASSUME NEW s \in Seq(X), NEW t \in Seq(X) PROVE ToSet(s \o t) = ToSet(s) \cup ToSet(t)
  <2>1. \A i \in DOMAIN (s \o t) : (s \o t)[i] = IF i <= Len(s) THEN s[i] ELSE t[i - Len(s)]
    OBVIOUS
  <2>2. DOMAIN (s \o t) = 1..(Len(s) + Len(t)) /\ DOMAIN s = 1..Len(s) /\ DOMAIN t = 1..Len(t)
    OBVIOUS
  <2>3. \A i \in DOMAIN t : i + Len(s) \in DOMAIN (s \o t) /\ (s \o t)[i + Len(s)] = t[i]
    BY <2>1, <2>2
  <2>4. \A i \in DOMAIN s : i \in DOMAIN (s \o t) /\ (s \o t)[i] = s[i]
    BY <2>1, <2>2
  <2>5. ToSet(s \o t) \subseteq ToSet(s) \cup ToSet(t)
    BY <2>1, <2>2 DEF ToSet
  <2>6. ToSet(s) \subseteq ToSet(s \o t) /\ ToSet(t) \subseteq ToSet(s \o t)
    BY <2>3, <2>4 DEF ToSet
  <2>. QED  BY <2>5, <2>6
<1>5. ASSUME NEW s \in Seq(X), s # <<>>
      PROVE  /\ ToSet(s) = {Head(s)} \cup ToSet(Tail(s))
             /\ Tail(s) \in Seq(X) /\ Head(s) \in ToSet(s)
  <2>1. Len(s) \in Nat /\ Len(s) # 0 /\ DOMAIN s = 1..Len(s)
    BY <1>5
  <2>2. /\ Tail(s) \in Seq(X) /\ DOMAIN Tail(s) = 1..(Len(s) - 1)
        /\ \A i \in 1..(Len(s) - 1) : Tail(s)[i] = s[i + 1]
    BY <1>5
  <2>3. Head(s) = s[1] /\ 1 \in DOMAIN s
    BY <1>5, <2>1
  <2>4. \A i \in DOMAIN s : i = 1 \/ (i - 1 \in DOMAIN Tail(s) /\ Tail(s)[i - 1] = s[i])
    BY <2>1, <2>2
  <2>5. \A i \in DOMAIN Tail(s) : i + 1 \in DOMAIN s /\ Tail(s)[i] = s[i + 1]
    BY <2>1, <2>2
  <2>. DEFINE h == Head(s)
              t == Tail(s)
  <2>6. h = s[1] /\ t = Tail(s)
    BY <2>3
  <2>. HIDE DEF h, t
  <2>7. ToSet(s) \subseteq {h} \cup ToSet(t)
    BY <2>4, <2>6, ZenonT(30) DEF ToSet
  <2>8. h \in ToSet(s) /\ ToSet(t) \subseteq ToSet(s)
    BY <2>3, <2>5, <2>6 DEF ToSet
  <2>9. ToSet(s) = {h} \cup ToSet(t)
    BY <2>7, <2>8
  <2>. QED  BY <2>2, <2>3, <2>6, <2>8, <2>9
<1>. QED  BY <1>1, <1>2, <1>3, <1>4, <1>5

WritesOf(rows) == {PutCase(r) : r \in ToSet(rows)}
IdsOf(rows) == {r.id : r \in ToSet(rows)}

LEMMA NamedRows ==
    ASSUME NEW rows \in Seq(NamedRow)
    PROVE  /\ Ids(rows) \in Seq(CaseIds) /\ Len(Ids(rows)) = Len(rows)
           /\ ToSet(Ids(rows)) = IdsOf(rows)
           /\ PutCases(rows) \in Seq(CaseWrite) /\ PutCases(rows) \in Seq(Writes)
           /\ ToSet(PutCases(rows)) = WritesOf(rows)
           /\ WrittenIds(PutCases(rows)) = IdsOf(rows)
<1>1. /\ DOMAIN rows = 1..Len(rows) /\ Len(rows) \in Nat
      /\ \A i \in 1..Len(rows) : rows[i] \in NamedRow
  OBVIOUS
<1>2. \A r \in NamedRow : r.id \in CaseIds /\ r.row \in CaseRow
  BY DEF NamedRow
<1>3. \A r \in NamedRow : PutCase(r) \in CaseWrite /\ PutCase(r).table = "cases" /\ PutCase(r).id = r.id
  BY <1>2 DEF PutCase, CaseWrite
<1>4. Ids(rows) \in Seq(CaseIds) /\ Len(Ids(rows)) = Len(rows) /\ DOMAIN Ids(rows) = 1..Len(rows)
  BY <1>1, <1>2 DEF Ids
<1>5. ToSet(Ids(rows)) = IdsOf(rows)
  BY <1>1, <1>4 DEF Ids, ToSet, IdsOf
<1>6. PutCases(rows) \in Seq(CaseWrite) /\ DOMAIN PutCases(rows) = 1..Len(rows)
  BY <1>1, <1>3 DEF PutCases
<1>7. ToSet(PutCases(rows)) = WritesOf(rows)
  BY <1>1, <1>6 DEF PutCases, ToSet, WritesOf
<1>8. PutCases(rows) \in Seq(Writes)
  BY <1>6 DEF Writes
<1>9. ToSet(rows) \subseteq NamedRow
  BY <1>1 DEF ToSet
<1>10. WrittenIds(PutCases(rows)) = IdsOf(rows)
  <2>1. \A k \in WrittenIds(PutCases(rows)) : \E r \in ToSet(rows) : k = r.id
    BY <1>3, <1>7, <1>9 DEF WrittenIds, WritesOf, IdsOf
  <2>2. \A r \in ToSet(rows) : r.id \in WrittenIds(PutCases(rows))
    BY <1>3, <1>7, <1>9 DEF WrittenIds, WritesOf, IdsOf
  <2>. QED  BY <2>1, <2>2 DEF IdsOf
<1>. QED  BY <1>4, <1>5, <1>6, <1>7, <1>8, <1>10

(* A manifest built over rows without a repeated id is of these rows.         *)
LEMMA Built ==
    ASSUME NEW rows \in Seq(NamedRow), ~IsDuplicated(Ids(rows))
    PROVE  /\ compute_manifest_hash(rows) \in SUBSET Dump
           /\ {x.id : x \in compute_manifest_hash(rows)} = ToSet(Ids(rows))
           /\ compute_statistics(rows) = [total |-> Len(rows)]
           /\ Cardinality(ToSet(Ids(rows))) = Len(Ids(rows)) /\ Len(Ids(rows)) = Len(rows)
<1>1. ToSet(rows) \subseteq NamedRow
  BY Elements
<1>2. \A r \in NamedRow : CanonicalDump(r.id, r.row) \in Dump /\ CanonicalDump(r.id, r.row).id = r.id
  BY DEF NamedRow, CaseRow, Dump, CanonicalDump
<1>3. compute_manifest_hash(rows) \in SUBSET Dump
  BY <1>1, <1>2 DEF compute_manifest_hash
<1>4. {x.id : x \in compute_manifest_hash(rows)} = IdsOf(rows)
  <2>1. \A r \in ToSet(rows) : \E x \in compute_manifest_hash(rows) : x.id = r.id
    BY <1>1, <1>2 DEF compute_manifest_hash
  <2>2. \A x \in compute_manifest_hash(rows) : \E r \in ToSet(rows) : x.id = r.id
    BY <1>1, <1>2 DEF compute_manifest_hash
  <2>. QED  BY <2>1, <2>2 DEF IdsOf
<1>. QED  BY <1>3, <1>4, NamedRows DEF compute_statistics, IsDuplicated

LEMMA BuiltRow ==
    ASSUME NEW rows \in Seq(NamedRow), ~IsDuplicated(Ids(rows)),
           NEW type \in {"regression", "capability"}, NEW status \in {"active", "frozen"},
           NEW source \in DatasetIds \cup {Null}
    PROVE  /\ build_dataset(type, rows, status, source) \in DatasetRow
           /\ Sound(build_dataset(type, rows, status, source))
           /\ build_dataset(type, rows, status, source).cases = Ids(rows)
           /\ build_dataset(type, rows, status, source).hash = compute_manifest_hash(rows)
<1>1. Ids(rows) \in Seq(CaseIds) /\ Len(rows) \in Nat
  BY NamedRows
<1>. QED  BY <1>1, Built DEF build_dataset, DatasetRow, Sound

-----------------------------------------------------------------------------
(* What handlers plan to write.                                              *)
LEMMA WriteKinds ==
    /\ \A w \in Writes : w.table \in {"cases", "datasets", "raise"}
    /\ \A w \in Writes : w.table = "cases" <=> w \in CaseWrite
    /\ \A w \in Writes : w.table = "datasets" <=> w \in DatasetWrite
    /\ \A w \in Writes : w.table = "raise" <=> w = Raise
BY DEF Writes, CaseWrite, DatasetWrite, Raise

(* Cases, then at most one thing more.                                        *)
LEMMA CasesThenLast ==
    ASSUME NEW rows \in Seq(NamedRow), NEW last \in DatasetWrite \cup {Raise}, NEW there,
           last # Raise => /\ Sound(last.row)
                           /\ ToSet(last.row.cases) \subseteq there \cup IdsOf(rows)
    PROVE  /\ PutCases(rows) \o <<last>> \in Seq(Writes)
           /\ PlanFits(PutCases(rows) \o <<last>>, there)
           /\ ToSet(PutCases(rows) \o <<last>>) = WritesOf(rows) \cup {last}
           /\ WrittenIds(PutCases(rows) \o <<last>>) = IdsOf(rows)
<1>. DEFINE todo == PutCases(rows) \o <<last>>
<1>1. /\ PutCases(rows) \in Seq(Writes) /\ PutCases(rows) \in Seq(CaseWrite)
      /\ ToSet(PutCases(rows)) = WritesOf(rows)
      /\ WrittenIds(PutCases(rows)) = IdsOf(rows)
  BY NamedRows
<1>2. last \in Writes /\ <<last>> \in Seq(Writes) /\ last.table # "cases"
  BY DEF Writes, DatasetWrite, Raise
<1>3. todo \in Seq(Writes) /\ ToSet(todo) = ToSet(PutCases(rows)) \cup {last}
  <2>1. ToSet(<<last>>) = {last} /\ \A s, t \in Seq(Writes) : ToSet(s \o t) = ToSet(s) \cup ToSet(t)
    BY Elements
  <2>2. ToSet(PutCases(rows) \o <<last>>) = ToSet(PutCases(rows)) \cup ToSet(<<last>>)
    BY <1>1, <1>2, <2>1
  <2>3. PutCases(rows) \o <<last>> \in Seq(Writes)
    BY <1>1, <1>2
  <2>. QED  BY <2>1, <2>2, <2>3
<1>4. \A i \in 1..Len(todo) : i # Len(todo) => todo[i].table = "cases"
  <2>1. Len(todo) = Len(PutCases(rows)) + 1
    BY <1>1
  <2>2. \A i \in 1..Len(PutCases(rows)) : todo[i] = PutCases(rows)[i] /\ PutCases(rows)[i] \in CaseWrite
    BY <1>1
  <2>3. \A w \in CaseWrite : w.table = "cases"
    BY DEF CaseWrite
  <2>4. Len(PutCases(rows)) \in Nat
    BY <1>1
  <2>. QED  BY <2>1, <2>2, <2>3, <2>4
<1>5. WrittenIds(todo) = IdsOf(rows)
  BY <1>1, <1>2, <1>3 DEF WrittenIds
<1>6. \A w \in ToSet(todo) : w.table = "datasets" => w = last
  <2>1. ToSet(PutCases(rows)) \subseteq CaseWrite
    BY <1>1, Elements
  <2>2. \A w \in CaseWrite : w.table = "cases"
    BY DEF CaseWrite
  <2>. QED  BY <1>3, <2>1, <2>2
<1>7. last.table = "datasets" => last # Raise
  BY DEF Raise
<1>. HIDE DEF todo
<1>8. PlanFits(todo, there)
  BY <1>4, <1>5, <1>6, <1>7 DEF PlanFits
<1>. QED  BY <1>1, <1>3, <1>5, <1>8 DEF todo

LEMMA CasesOnly ==
    ASSUME NEW rows \in Seq(NamedRow), NEW there
    PROVE  PlanFits(PutCases(rows), there)
<1>1. PutCases(rows) \in Seq(CaseWrite)
  BY NamedRows
<1>. DEFINE todo == PutCases(rows)
<1>4. \A w \in CaseWrite : w.table = "cases"
  BY DEF CaseWrite
<1>5. todo \in Seq(CaseWrite) /\ ToSet(todo) \subseteq CaseWrite
  BY <1>1, Elements
<1>. HIDE DEF todo
<1>2. \A w \in ToSet(todo) : w.table = "cases"
  BY <1>4, <1>5
<1>3. \A i \in 1..Len(todo) : todo[i].table = "cases"
  <2>1. \A i \in 1..Len(todo) : todo[i] \in CaseWrite
    BY <1>5
  <2>. QED  BY <1>4, <2>1
<1>. QED  BY <1>2, <1>3 DEF PlanFits, todo

LEMMA PersistFits ==
    ASSUME NEW rows \in Seq(NamedRow), NEW d \in DatasetIds,
           NEW type \in {"regression", "capability"}, NEW status \in {"active", "frozen"},
           NEW source \in DatasetIds \cup {Null},
           NEW todo, todo = persist_dataset(d, type, rows, status, source)
    PROVE  /\ todo \in Seq(Writes) /\ \A there : PlanFits(todo, there)
           /\ WrittenIds(todo) = IdsOf(rows)
           /\ IsDuplicated(Ids(rows)) => ToSet(todo) = WritesOf(rows) \cup {Raise}
           /\ ~IsDuplicated(Ids(rows)) =>
                 ToSet(todo) = WritesOf(rows) \cup {PutDataset(d, build_dataset(type, rows, status, source))}
<1>1. CASE IsDuplicated(Ids(rows))
  <2>1. persist_dataset(d, type, rows, status, source) = PutCases(rows) \o <<Raise>>
    BY <1>1 DEF persist_dataset
  <2>2. LET plan == PutCases(rows) \o <<Raise>>
        IN  /\ plan \in Seq(Writes) /\ \A there : PlanFits(plan, there)
            /\ ToSet(plan) = WritesOf(rows) \cup {Raise} /\ WrittenIds(plan) = IdsOf(rows)
    BY CasesThenLast
  <2>. QED  BY <1>1, <2>1, <2>2
<1>2. CASE ~IsDuplicated(Ids(rows))
  <2>. DEFINE row == build_dataset(type, rows, status, source)
  <2>1. persist_dataset(d, type, rows, status, source) = PutCases(rows) \o <<PutDataset(d, row)>>
    BY <1>2 DEF persist_dataset
  <2>2. row \in DatasetRow /\ Sound(row) /\ row.cases = Ids(rows)
    BY <1>2, BuiltRow
  <2>. HIDE DEF row
  <2>3. PutDataset(d, row) \in DatasetWrite /\ PutDataset(d, row).row = row
    BY <2>2 DEF PutDataset, DatasetWrite
  <2>4. ToSet(row.cases) = IdsOf(rows)
    BY <2>2, NamedRows
  <2>5. PutDataset(d, row) # Raise /\ PutDataset(d, row) \in DatasetWrite \cup {Raise}
    BY <2>3 DEF DatasetWrite, Raise
  <2>6. LET plan == PutCases(rows) \o <<PutDataset(d, row)>>
        IN  /\ plan \in Seq(Writes) /\ \A there : PlanFits(plan, there)
            /\ ToSet(plan) = WritesOf(rows) \cup {PutDataset(d, row)} /\ WrittenIds(plan) = IdsOf(rows)
    BY <2>2, <2>3, <2>4, <2>5, CasesThenLast
  <2>. QED  BY <1>2, <2>1, <2>6 DEF row
<1>. QED  BY <1>1, <1>2

(* A write taken from the head of a plan leaves a plan.                       *)
LEMMA PlanGoesOn ==
    ASSUME NEW todo \in Seq(Writes), todo # <<>>, NEW there, PlanFits(todo, there)
    PROVE  /\ Tail(todo) \in Seq(Writes) /\ Head(todo) \in Writes
           /\ ToSet(todo) = {Head(todo)} \cup ToSet(Tail(todo))
           /\ Head(todo).table = "cases" => PlanFits(Tail(todo), there \cup {Head(todo).id})
           /\ Head(todo).table # "cases" => Tail(todo) = <<>>
           /\ Head(todo).table = "datasets" => /\ Sound(Head(todo).row)
                                               /\ ToSet(Head(todo).row.cases) \subseteq there
<1>1. /\ Tail(todo) \in Seq(Writes) /\ Head(todo) \in ToSet(todo)
      /\ ToSet(todo) = {Head(todo)} \cup ToSet(Tail(todo)) /\ ToSet(todo) \subseteq Writes
  BY Elements
<1>2. Len(todo) \in Nat \ {0} /\ Len(Tail(todo)) = Len(todo) - 1 /\ Head(todo) = todo[1]
  OBVIOUS
<1>3. \A i \in 1..Len(Tail(todo)) : Tail(todo)[i] = todo[i + 1]
  OBVIOUS
<1>4. \A i \in 1..Len(Tail(todo)) : Tail(todo)[i].table # "cases" => i = Len(Tail(todo))
  <2>. SUFFICES ASSUME NEW i \in 1..Len(Tail(todo)), Tail(todo)[i].table # "cases"
                PROVE  i = Len(Tail(todo))
    OBVIOUS
  <2>1. i + 1 \in 1..Len(todo) /\ todo[i + 1].table # "cases"
    BY <1>2, <1>3
  <2>2. i + 1 = Len(todo)
    BY <2>1 DEF PlanFits
  <2>3. i \in Int /\ Len(Tail(todo)) = Len(todo) - 1
    BY <1>2
  <2>. QED  BY <2>2, <2>3
<1>5. ASSUME Head(todo).table = "cases" PROVE PlanFits(Tail(todo), there \cup {Head(todo).id})
  <2>1. WrittenIds(todo) \subseteq {Head(todo).id} \cup WrittenIds(Tail(todo))
    BY <1>1 DEF WrittenIds
  <2>. QED  BY <1>1, <1>4, <2>1 DEF PlanFits
<1>6. ASSUME Head(todo).table # "cases" PROVE Tail(todo) = <<>>
  <2>1. 1 \in 1..Len(todo) /\ todo[1].table # "cases"
    BY <1>2, <1>6
  <2>2. Len(todo) = 1
    BY <2>1 DEF PlanFits
  <2>3. Len(Tail(todo)) = 0 /\ Tail(todo) \in Seq(Writes)
    BY <1>1, <1>2, <2>2
  <2>4. \A t \in Seq(Writes) : Len(t) = 0 => t = <<>>
    OBVIOUS
  <2>. QED  BY <2>3, <2>4
<1>7. ASSUME Head(todo).table = "datasets"
      PROVE  Sound(Head(todo).row) /\ ToSet(Head(todo).row.cases) \subseteq there
  <2>1. ToSet(todo) = {Head(todo)}
    BY <1>1, <1>6, <1>7, Elements
  <2>2. WrittenIds(todo) = {}
    BY <1>7, <2>1 DEF WrittenIds
  <2>. QED  BY <1>1, <1>7, <2>2 DEF PlanFits
<1>. QED  BY <1>1, <1>5, <1>6, <1>7

-----------------------------------------------------------------------------
(* What is read of the stored cases.                                         *)
AsStored(S) == {[id |-> k, row |-> cases[k]] : k \in S}

LEMMA StoredRows ==
    ASSUME cases \in [CaseIds -> CaseRow \cup {Null}], NEW ids \in Seq(CaseIds),
           ToSet(ids) \subseteq StoredIds(cases)
    PROVE  /\ Stored(ids) \in Seq(NamedRow) /\ Len(Stored(ids)) = Len(ids) /\ Ids(Stored(ids)) = ids
           /\ ToSet(Stored(ids)) = AsStored(ToSet(ids))
<1>1. /\ Len(ids) \in Nat /\ DOMAIN ids = 1..Len(ids)
      /\ \A i \in 1..Len(ids) : ids[i] \in CaseIds
  OBVIOUS
<1>2. \A i \in 1..Len(ids) : cases[ids[i]] \in CaseRow
  BY <1>1 DEF StoredIds, ToSet
<1>3. \A i \in 1..Len(ids) : [id |-> ids[i], row |-> cases[ids[i]]] \in NamedRow
  BY <1>1, <1>2 DEF NamedRow
<1>4. Stored(ids) \in Seq(NamedRow) /\ Len(Stored(ids)) = Len(ids) /\ DOMAIN Stored(ids) = 1..Len(ids)
  BY <1>1, <1>3 DEF Stored
<1>5. Ids(Stored(ids)) = [i \in 1..Len(ids) |-> ids[i]]
  BY <1>4 DEF Ids, Stored
<1>6. ids = [i \in 1..Len(ids) |-> ids[i]]
  BY <1>1
<1>7. ToSet(Stored(ids)) = AsStored(ToSet(ids))
  BY <1>1, <1>4 DEF ToSet, Stored, AsStored
<1>. QED  BY <1>4, <1>5, <1>6, <1>7

LEMMA FiniteCases == ASSUME NEW ids \in Seq(CaseIds) PROVE IsFiniteSet(ToSet(ids))
<1>1. Len(ids) \in Nat /\ DOMAIN ids = 1..Len(ids)
  OBVIOUS
<1>2. ids \in Surjection(1..Len(ids), ToSet(ids))
  BY <1>1 DEF Surjection, ToSet
<1>. QED  BY <1>1, <1>2, FS_Surjection, FS_Interval

LEMMA Listing ==
    ASSUME NEW S \in SUBSET CaseIds, IsFiniteSet(S)
    PROVE  /\ SetToSeq(S) \in Seq(CaseIds) /\ ToSet(SetToSeq(S)) = S
           /\ Len(SetToSeq(S)) = Cardinality(S)
<1>1. Cardinality(S) \in Nat /\ ExistsBijection(1..Cardinality(S), S)
  BY FS_CardinalityType
<1>2. \E f \in [1..Cardinality(S) -> S] : IsInjective(f)
  BY <1>1 DEF ExistsBijection, Bijection, Injection
<1>3. SetToSeq(S) \in [1..Cardinality(S) -> S] /\ IsInjective(SetToSeq(S))
  BY <1>2 DEF SetToSeq
<1>4. SetToSeq(S) \in Injection(1..Cardinality(S), S)
  BY <1>3 DEF Injection
<1>5. Cardinality(1..Cardinality(S)) = Cardinality(S)
  BY <1>1, FS_Interval
<1>6. SetToSeq(S) \in Surjection(1..Cardinality(S), S)
  BY <1>4, <1>5, FS_Injection
<1>7. SetToSeq(S) \in Seq(CaseIds) /\ Len(SetToSeq(S)) = Cardinality(S)
  BY <1>1, <1>3
<1>8. ToSet(SetToSeq(S)) = S
  BY <1>3, <1>6 DEF ToSet, Surjection
<1>. QED  BY <1>7, <1>8

(* All cases that a sound row names are stored: the listing has each of them. *)
LEMMA ListedRows ==
    ASSUME cases \in [CaseIds -> CaseRow \cup {Null}], Null \notin CaseRow, NEW row \in DatasetRow,
           Sound(row), ToSet(row.cases) \subseteq StoredIds(cases)
    PROVE  /\ Listed(row.cases) \in Seq(NamedRow) /\ Len(Listed(row.cases)) = Len(row.cases)
           /\ ToSet(Listed(row.cases)) = AsStored(ToSet(row.cases))
           /\ ToSet(Ids(Listed(row.cases))) = ToSet(row.cases)
           /\ ~IsDuplicated(Ids(Listed(row.cases)))
<1>. DEFINE ids == row.cases
            seq == SetToSeq(ToSet(ids))
<1>1. ids \in Seq(CaseIds) /\ Cardinality(ToSet(ids)) = Len(ids)
  BY DEF DatasetRow, Sound
<1>2. {k \in ToSet(ids) : cases[k] # Null} = ToSet(ids)
  BY DEF StoredIds
<1>3. Listed(ids) = Stored(seq)
  BY <1>2 DEF Listed
<1>4. ToSet(ids) \in SUBSET CaseIds /\ IsFiniteSet(ToSet(ids))
  BY <1>1, Elements, FiniteCases
<1>5. seq \in Seq(CaseIds) /\ ToSet(seq) = ToSet(ids) /\ Len(seq) = Cardinality(ToSet(ids))
  BY <1>4, Listing
<1>. HIDE DEF seq, ids
<1>6. /\ Stored(seq) \in Seq(NamedRow) /\ Len(Stored(seq)) = Len(seq) /\ Ids(Stored(seq)) = seq
      /\ ToSet(Stored(seq)) = AsStored(ToSet(seq))
  BY <1>5, StoredRows DEF ids
<1>. QED  BY <1>1, <1>3, <1>5, <1>6 DEF IsDuplicated, ids

LEMMA DumpsOfRows ==
    ASSUME NEW rows \in Seq(NamedRow), NEW x \in compute_manifest_hash(rows)
    PROVE  \E r \in ToSet(rows) : x.id = r.id /\ RowOf(x) = r.row
<1>1. PICK r \in ToSet(rows) : x = CanonicalDump(r.id, r.row)
  BY DEF compute_manifest_hash
<1>2. ToSet(rows) \subseteq NamedRow
  BY Elements
<1>3. r.row \in CaseRow
  BY <1>2 DEF NamedRow
<1>. QED  BY <1>1, <1>3 DEF CanonicalDump, RowOf, CaseRow

-----------------------------------------------------------------------------
(* Every request begins with a plan that fits, keeps what the datasets it     *)
(* replaces promise, and, short of stamps, whose manifests will be true.      *)
Answers == {Null} \cup Appends \cup Launches

Planned(todo, answer) ==
    todo \in Seq(Writes) /\ answer \in Answers /\ PlanFits(todo, StoredIds(cases))

Promised(todo, answer) == Keeps([todo |-> todo, busy |-> TRUE, answer |-> answer], datasets)

LEMMA NoAppend == \A l \in Launches, k \in CaseIds, d \in DatasetIds : l # [append |-> <<k, d>>]
<1>1. ASSUME NEW l \in Launches, NEW k \in CaseIds, NEW d \in DatasetIds PROVE l # [append |-> <<k, d>>]
  <2>1. DOMAIN l = {"launch", "over"} /\ DOMAIN [append |-> <<k, d>>] = {"append"}
    BY DEF Launches
  <2>. QED  BY <2>1
<1>. QED  BY <1>1

LEMMA CreatePlans ==
    ASSUME DatasetConstants, DatasetsFit, NEW c \in Clients, create_dataset(c)
    PROVE  \E todo \in Seq(Writes) : /\ Begin(c, todo, Null) /\ Planned(todo, Null)
                                     /\ \A w \in ToSet(todo) : w.table = "datasets" => datasets[w.id] = Null
                                     /\ ~Shared => PlanHashes(cases, todo)
<1>1. PICK d \in DatasetIds, ks \in {<<k>> : k \in CaseIds} \cup (CaseIds \X CaseIds),
          b \in Bodies, type \in {"regression", "capability"} :
          /\ Fresh(d) /\ (Shared \/ \A k \in ToSet(ks) : FreshCase(k))
          /\ Begin(c, persist_dataset(d, type, [i \in 1..Len(ks) |-> Named(ks[i], b)], "active", Null), Null)
  BY DEF create_dataset
<1>. DEFINE rows == [i \in 1..Len(ks) |-> Named(ks[i], b)]
            todo == persist_dataset(d, type, rows, "active", Null)
            row == build_dataset(type, rows, "active", Null)
<1>2. ks \in Seq(CaseIds)
  <2>1. CASE ks \in {<<k>> : k \in CaseIds}
    <3>1. PICK k \in CaseIds : ks = <<k>>
      BY <2>1
    <3>. QED  BY <3>1
  <2>2. CASE ks \in CaseIds \X CaseIds
    <3>1. PICK k \in CaseIds, l \in CaseIds : ks = <<k, l>>
      BY <2>2
    <3>2. <<k, l>> \in Seq(CaseIds)
      OBVIOUS
    <3>. QED  BY <3>1, <3>2
  <2>. QED  BY <2>1, <2>2
<1>3. /\ rows \in Seq(NamedRow) /\ DOMAIN rows = 1..Len(ks)
      /\ \A r \in ToSet(rows) : r.id \in ToSet(ks) /\ r.row = [body |-> b, exp |-> Null]
  <2>1. /\ Len(ks) \in Nat /\ DOMAIN ks = 1..Len(ks) /\ \A i \in 1..Len(ks) : ks[i] \in CaseIds
    BY <1>2
  <2>2. \A k \in CaseIds : Named(k, b) \in NamedRow /\ Named(k, b).id = k /\ Named(k, b).row = [body |-> b, exp |-> Null]
    BY DEF Named, NamedRow, CaseRow
  <2>3. rows \in Seq(NamedRow) /\ DOMAIN rows = 1..Len(ks)
    BY <2>1, <2>2
  <2>4. \A i \in 1..Len(ks) : rows[i].id = ks[i] /\ rows[i].row = [body |-> b, exp |-> Null]
    BY <2>1, <2>2
  <2>. QED  BY <2>1, <2>3, <2>4 DEF ToSet
<1>. HIDE DEF rows
<1>4. /\ todo \in Seq(Writes) /\ PlanFits(todo, StoredIds(cases))
      /\ WrittenIds(todo) = IdsOf(rows)
      /\ IF IsDuplicated(Ids(rows)) THEN ToSet(todo) = WritesOf(rows) \cup {Raise}
         ELSE ToSet(todo) = WritesOf(rows) \cup {PutDataset(d, row)}
  <2>1. type \in {"regression", "capability"} /\ "active" \in {"active", "frozen"} /\ Null \in DatasetIds \cup {Null}
    OBVIOUS
  <2>. HIDE DEF todo, row
  <2>2. todo = persist_dataset(d, type, rows, "active", Null) /\ row = build_dataset(type, rows, "active", Null)
    BY DEF todo, row
  <2>3. todo \in Seq(Writes) /\ PlanFits(todo, StoredIds(cases)) /\ WrittenIds(todo) = IdsOf(rows)
    BY <1>3, <2>1, <2>2, PersistFits
  <2>4. IsDuplicated(Ids(rows)) => ToSet(todo) = WritesOf(rows) \cup {Raise}
    BY <1>3, <2>1, <2>2, PersistFits
  <2>5. ~IsDuplicated(Ids(rows)) =>
           ToSet(todo) = WritesOf(rows) \cup {PutDataset(d, build_dataset(type, rows, "active", Null))}
    BY <1>3, <2>1, <2>2, PersistFits
  <2>. QED  BY <2>2, <2>3, <2>4, <2>5
<1>5. datasets[d] = Null
  BY <1>1 DEF Fresh
<1>. HIDE DEF todo
<1>6. /\ \A w \in ToSet(todo) : w.table = "datasets" =>
            w = PutDataset(d, row) /\ w.id = d /\ w.row = row /\ ~IsDuplicated(Ids(rows))
      /\ \A w \in ToSet(todo) : w.table = "cases" => \E r \in ToSet(rows) : w.id = r.id /\ w.row = r.row
  <2>. HIDE DEF row
  <2>1. \A r : PutCase(r).table = "cases" /\ PutCase(r).id = r.id /\ PutCase(r).row = r.row
    BY DEF PutCase
  <2>2. PutDataset(d, row).table = "datasets" /\ PutDataset(d, row).id = d /\ PutDataset(d, row).row = row
    BY DEF PutDataset
  <2>3. Raise.table = "raise"
    BY DEF Raise
  <2>. QED  BY <1>4, <2>1, <2>2, <2>3 DEF WritesOf
<1>7. ASSUME ~Shared PROVE PlanHashes(cases, todo)
  <2>1. ASSUME NEW w \in ToSet(todo), w.table = "cases" PROVE cases[w.id] = Null
    BY <1>1, <1>3, <1>6, <1>7, <2>1 DEF FreshCase
  <2>2. ASSUME NEW w \in ToSet(todo), w.table = "datasets", NEW x \in w.row.hash
        PROVE  /\ \A v \in ToSet(todo) : v.table = "cases" /\ v.id = x.id => v.row = RowOf(x)
               /\ x.id \in WrittenIds(todo)
    <3>1. row.hash = compute_manifest_hash(rows)
      BY DEF build_dataset
    <3>2. \E r \in ToSet(rows) : x.id = r.id /\ RowOf(x) = r.row
      BY <1>3, <1>6, <2>2, <3>1, DumpsOfRows
    <3>. QED  BY <1>3, <1>4, <1>6, <3>2 DEF IdsOf
  <2>3. \A v, w \in ToSet(todo) : v.table = "cases" /\ w.table = "cases" => v.row = w.row
    BY <1>3, <1>6
  <2>. QED  BY <2>1, <2>2, <2>3 DEF PlanHashes
<1>. QED  BY <1>1, <1>4, <1>5, <1>6, <1>7 DEF Planned, Answers, todo, rows

LEMMA FreezePlans ==
    ASSUME DatasetConstants, DatasetsFit, NEW c \in Clients, freeze_dataset(c)
    PROVE  \E todo \in Seq(Writes) : /\ Begin(c, todo, Null) /\ Planned(todo, Null)
                                     /\ \A w \in ToSet(todo) : w.table = "datasets" => Replaces(datasets[w.id], w.row)
                                     /\ HashesFit => PlanHashes(cases, todo)
<1>1. PICK d \in DatasetIds :
          /\ datasets[d] # Null
          /\ LET rows == Listed(datasets[d].cases)
                 ds == IF rows = <<>> THEN datasets[d]
                       ELSE [datasets[d] EXCEPT !.hash = compute_manifest_hash(rows),
                                                !.stats = compute_statistics(rows)]
             IN  Begin(c, <<PutDataset(d, [ds EXCEPT !.status = "frozen"])>>, Null)
  BY DEF freeze_dataset
<1>. DEFINE old == datasets[d]
            rows == Listed(old.cases)
            ds == IF rows = <<>> THEN old ELSE [old EXCEPT !.hash = compute_manifest_hash(rows),
                                                          !.stats = compute_statistics(rows)]
            row == [ds EXCEPT !.status = "frozen"]
            write == PutDataset(d, row)
<1>2. old \in DatasetRow /\ Sound(old) /\ ToSet(old.cases) \subseteq StoredIds(cases)
  BY <1>1 DEF DatasetsFit, Live
<1>3. /\ rows \in Seq(NamedRow) /\ Len(rows) = Len(old.cases) /\ ~IsDuplicated(Ids(rows))
      /\ ToSet(rows) = AsStored(ToSet(old.cases))
      /\ ToSet(Ids(rows)) = ToSet(old.cases)
  BY <1>2, ListedRows DEF DatasetConstants, DatasetsFit
<1>4. /\ compute_manifest_hash(rows) \in SUBSET Dump
      /\ {x.id : x \in compute_manifest_hash(rows)} = ToSet(Ids(rows))
      /\ compute_statistics(rows) = [total |-> Len(rows)] /\ Len(rows) \in Nat
  BY <1>3, Built
<1>. HIDE DEF rows, old
<1>5. row \in DatasetRow /\ row.cases = old.cases /\ row.status = "frozen" /\ row.hash = ds.hash
      /\ row.stats = ds.stats
  <2>1. ds \in DatasetRow /\ ds.cases = old.cases
    <3>1. CASE rows = <<>>
      BY <1>2, <3>1
    <3>2. CASE rows # <<>>
      <4>1. compute_statistics(rows) \in [total : Nat]
        BY <1>4
      <4>. QED  BY <1>2, <1>4, <3>2, <4>1 DEF DatasetRow
    <3>. QED  BY <3>1, <3>2
  <2>. HIDE DEF ds
  <2>. QED  BY <2>1 DEF DatasetRow
<1>6. Sound(row)
  <2>1. CASE rows = <<>>
    BY <1>2, <1>5, <2>1 DEF Sound
  <2>2. CASE rows # <<>>
    <3>1. ds.hash = compute_manifest_hash(rows) /\ ds.stats = compute_statistics(rows)
      BY <1>2, <2>2 DEF DatasetRow
    <3>. QED  BY <1>2, <1>3, <1>4, <1>5, <3>1 DEF Sound
  <2>. QED  BY <2>1, <2>2
<1>. HIDE DEF row
<1>7. write \in DatasetWrite /\ write.row = row /\ write.id = d /\ write.table = "datasets"
  BY <1>5 DEF PutDataset, DatasetWrite
<1>8. /\ <<write>> \in Seq(Writes) /\ ToSet(<<write>>) = {write}
      /\ PlanFits(<<write>>, StoredIds(cases)) /\ WrittenIds(<<write>>) = {}
  <2>1. write \in Writes /\ <<write>> \in Seq(Writes)
    BY <1>7 DEF Writes
  <2>2. ToSet(<<write>>) = {write}
    BY Elements
  <2>3. WrittenIds(<<write>>) = {}
    BY <1>7, <2>2 DEF WrittenIds
  <2>4. \A i \in 1..Len(<<write>>) : i = Len(<<write>>)
    OBVIOUS
  <2>. QED  BY <1>2, <1>5, <1>6, <1>7, <2>1, <2>2, <2>3, <2>4 DEF PlanFits
<1>9. Replaces(old, row)
  BY <1>5 DEF Replaces
<1>10. ASSUME HashesFit PROVE PlanHashes(cases, <<write>>)
  <2>1. ASSUME NEW x \in row.hash PROVE cases[x.id] = RowOf(x)
    <3>1. CASE rows = <<>>
      <4>1. d \in Live /\ x \in datasets[d].hash
        BY <1>1, <1>5, <2>1, <3>1 DEF Live, old
      <4>. QED  BY <1>10, <4>1 DEF HashesFit
    <3>2. CASE rows # <<>>
      <4>1. ds.hash = compute_manifest_hash(rows)
        BY <1>2, <3>2 DEF DatasetRow
      <4>2. \E r \in ToSet(rows) : x.id = r.id /\ RowOf(x) = r.row
        BY <1>3, <1>5, <2>1, <4>1, DumpsOfRows
      <4>. QED  BY <1>3, <4>2 DEF AsStored
    <3>. QED  BY <3>1, <3>2
  <2>2. \A w \in ToSet(<<write>>) : w.table = "datasets" /\ w.row = row
    BY <1>7, <1>8
  <2>. QED  BY <2>1, <2>2 DEF PlanHashes
<1>11. Begin(c, <<write>>, Null)
  BY <1>1 DEF row, rows, old
<1>. HIDE DEF write
<1>12. \A w \in ToSet(<<write>>) : w.table = "datasets" => Replaces(datasets[w.id], w.row)
  BY <1>7, <1>8, <1>9 DEF old
<1>. QED  BY <1>8, <1>10, <1>11, <1>12 DEF Planned, Answers

(* The rows of a dataset and one more.                                        *)
Extended(d, r) == Append(Stored(datasets[d].cases), r)

LEMMA OneMore ==
    ASSUME DatasetsFit, NEW d \in Live, NEW r \in NamedRow
    PROVE  /\ Extended(d, r) \in Seq(NamedRow)
           /\ ToSet(Extended(d, r)) = AsStored(ToSet(datasets[d].cases)) \cup {r}
           /\ ToSet(Ids(Extended(d, r))) = ToSet(datasets[d].cases) \cup {r.id}
           /\ IdsOf(Extended(d, r)) = ToSet(datasets[d].cases) \cup {r.id}
<1>. DEFINE ids == datasets[d].cases
            rows == Extended(d, r)
<1>1. ids \in Seq(CaseIds) /\ ToSet(ids) \subseteq StoredIds(cases)
  BY DEF DatasetsFit, Live, DatasetRow
<1>2. Stored(ids) \in Seq(NamedRow) /\ ToSet(Stored(ids)) = AsStored(ToSet(ids))
  BY <1>1, StoredRows DEF DatasetsFit
<1>3. rows \in Seq(NamedRow) /\ ToSet(rows) = ToSet(Stored(ids)) \cup {r}
  <2>1. \A t \in Seq(NamedRow), x \in NamedRow : ToSet(Append(t, x)) = ToSet(t) \cup {x}
    BY Elements
  <2>. QED  BY <1>2, <2>1 DEF Extended
<1>. HIDE DEF rows
<1>4. IdsOf(rows) = ToSet(ids) \cup {r.id}
  <2>1. \A q \in AsStored(ToSet(ids)) : q.id \in ToSet(ids)
    BY DEF AsStored
  <2>2. ASSUME NEW k \in ToSet(ids) PROVE \E q \in AsStored(ToSet(ids)) : q.id = k
    <3>1. [id |-> k, row |-> cases[k]] \in AsStored(ToSet(ids))
      BY DEF AsStored
    <3>. QED  BY <3>1
  <2>3. \A q \in ToSet(rows) : q.id \in ToSet(ids) \cup {r.id}
    BY <1>2, <1>3, <2>1
  <2>4. \A k \in ToSet(ids) \cup {r.id} : \E q \in ToSet(rows) : q.id = k
    BY <1>2, <1>3, <2>2
  <2>. QED  BY <2>3, <2>4 DEF IdsOf
<1>. QED  BY <1>2, <1>3, <1>4, NamedRows DEF rows

(* Their manifest, as long as the new case is not one of the old ones.        *)
LEMMA OneMoreHash ==
    ASSUME DatasetsFit, NEW d \in Live, NEW r \in NamedRow,
           cases[r.id] = Null, NEW x \in compute_manifest_hash(Extended(d, r))
    PROVE  \/ x.id = r.id /\ RowOf(x) = r.row
           \/ x.id # r.id /\ x.id \in ToSet(datasets[d].cases) /\ cases[x.id] = RowOf(x)
<1>. DEFINE rows == Extended(d, r)
<1>1. /\ rows \in Seq(NamedRow)
      /\ ToSet(rows) = AsStored(ToSet(datasets[d].cases)) \cup {r}
  BY OneMore
<1>2. PICK q \in ToSet(rows) : x.id = q.id /\ RowOf(x) = q.row
  BY <1>1, DumpsOfRows
<1>3. r.id \notin ToSet(datasets[d].cases)
  BY DEF DatasetsFit, StoredIds, Live
<1>. QED  BY <1>1, <1>2, <1>3 DEF AsStored

LEMMA AppendPlans ==
    ASSUME DatasetConstants, DatasetsFit, NEW c \in Clients, append_case_to_dataset(c)
    PROVE  \E todo \in Seq(Writes), answer \in Appends :
              /\ Begin(c, todo, answer) /\ Planned(todo, answer) /\ Promised(todo, answer)
              /\ ~Shared /\ HashesFit => PlanHashes(cases, todo)
<1>1. PICK d \in DatasetIds, k \in CaseIds, b \in Bodies, target \in DatasetIds :
          /\ datasets[d] # Null /\ datasets[d].type = "regression"
          /\ Shared \/ FreshCase(k)
          /\ IF datasets[d].status = "frozen" THEN Fresh(target) ELSE target = d
          /\ Begin(c, AppendTodo(d, k, Named(k, b), target), [append |-> <<k, target>>])
  BY DEF append_case_to_dataset
<1>. DEFINE old == datasets[d]
            r == Named(k, b)
            rows == Append(Stored(old.cases), r)
            answer == [append |-> <<k, target>>]
            todo == AppendTodo(d, k, r, target)
<1>2. d \in Live /\ old \in DatasetRow /\ Sound(old) /\ old = datasets[d]
  BY <1>1 DEF DatasetsFit, Live
<1>0. rows = Extended(d, r)
  BY DEF Extended
<1>. HIDE DEF rows, todo, answer, old
<1>3. r \in NamedRow /\ r.id = k
  BY DEF Named, NamedRow, CaseRow
<1>. HIDE DEF r
<1>4. /\ rows \in Seq(NamedRow) /\ ToSet(Ids(rows)) = ToSet(old.cases) \cup {k}
      /\ IdsOf(rows) = ToSet(old.cases) \cup {k}
      /\ ToSet(rows) = AsStored(ToSet(old.cases)) \cup {r}
  <2>1. /\ rows \in Seq(NamedRow)
        /\ ToSet(rows) = AsStored(ToSet(datasets[d].cases)) \cup {r}
        /\ ToSet(Ids(rows)) = ToSet(datasets[d].cases) \cup {r.id}
        /\ IdsOf(rows) = ToSet(datasets[d].cases) \cup {r.id}
    BY <1>0, <1>2, <1>3, OneMore
  <2>. QED  BY <1>2, <1>3, <2>1
<1>5. answer \in Appends
  BY DEF Appends, answer
<1>6. ASSUME ~Shared PROVE cases[k] = Null
  BY <1>1, <1>6 DEF FreshCase
<1>7. ASSUME ~Shared, NEW x \in compute_manifest_hash(rows)
      PROVE  \/ x.id = k /\ RowOf(x) = r.row
             \/ x.id # k /\ x.id \in ToSet(old.cases) /\ cases[x.id] = RowOf(x)
  <2>1. cases[r.id] = Null
    BY <1>3, <1>6, <1>7
  <2>2. \/ x.id = r.id /\ RowOf(x) = r.row
        \/ x.id # r.id /\ x.id \in ToSet(datasets[d].cases) /\ cases[x.id] = RowOf(x)
    BY <1>0, <1>2, <1>3, <1>7, <2>1, OneMoreHash
  <2>. QED  BY <1>2, <1>3, <2>2
<1>8. \A q : PutCase(q).table = "cases" /\ PutCase(q).id = q.id /\ PutCase(q).row = q.row
  BY DEF PutCase
<1>9. Raise.table = "raise"
  BY DEF Raise
<1>10. CASE old.status = "frozen"
  <2>. DEFINE row == build_dataset("regression", rows, "active", d)
              write == PutDataset(target, row)
  <2>1. todo = persist_dataset(target, "regression", rows, "active", d)
    BY <1>10 DEF AppendTodo, todo, rows, old
  <2>2. datasets[target] = Null
    BY <1>1, <1>10 DEF Fresh, old
  <2>3. row.hash = compute_manifest_hash(rows) /\ row.cases = Ids(rows)
    BY DEF build_dataset
  <2>4. /\ todo \in Seq(Writes) /\ PlanFits(todo, StoredIds(cases)) /\ WrittenIds(todo) = IdsOf(rows)
        /\ IsDuplicated(Ids(rows)) => ToSet(todo) = WritesOf(rows) \cup {Raise}
        /\ ~IsDuplicated(Ids(rows)) => ToSet(todo) = WritesOf(rows) \cup {write}
    <3>1. /\ rows \in Seq(NamedRow) /\ target \in DatasetIds /\ d \in DatasetIds \cup {Null}
          /\ "regression" \in {"regression", "capability"} /\ "active" \in {"active", "frozen"}
      BY <1>4
    <3>2. /\ todo \in Seq(Writes) /\ \A there : PlanFits(todo, there)
          /\ WrittenIds(todo) = IdsOf(rows)
          /\ IsDuplicated(Ids(rows)) => ToSet(todo) = WritesOf(rows) \cup {Raise}
          /\ ~IsDuplicated(Ids(rows)) =>
                ToSet(todo) = WritesOf(rows)
                                 \cup {PutDataset(target, build_dataset("regression", rows, "active", d))}
      BY <2>1, <3>1, PersistFits, SMTT(30)
    <3>. QED  BY <3>2
  <2>. HIDE DEF row
  <2>5. write.table = "datasets" /\ write.id = target /\ write.row = row
    BY DEF PutDataset
  <2>. HIDE DEF write
  <2>6. /\ \A w \in ToSet(todo) : w.table = "datasets" => w = write
        /\ \A w \in ToSet(todo) : w.table = "cases" => \E q \in ToSet(rows) : w.id = q.id /\ w.row = q.row
    BY <1>8, <1>9, <2>4, <2>5 DEF WritesOf
  <2>7. Promised(todo, answer)
    <3>1. \A w \in ToSet(todo) : w.table = "datasets" => Replaces(datasets[w.id], w.row)
      BY <2>2, <2>5, <2>6 DEF Replaces
    <3>2. Raise \in ToSet(todo) \/ (write \in ToSet(todo) /\ k \in ToSet(row.cases))
      BY <1>4, <2>3, <2>4
    <3>3. \A l \in CaseIds, e \in DatasetIds : answer = [append |-> <<l, e>>] => l = k /\ e = target
      BY DEF answer
    <3>. QED  BY <2>5, <3>1, <3>2, <3>3 DEF Promised, Keeps
  <2>8. ASSUME ~Shared, HashesFit PROVE PlanHashes(cases, todo)
    <3>1. ASSUME NEW q \in ToSet(rows)
          PROVE  \/ q.id = k /\ q = r /\ cases[q.id] = Null
                 \/ q.id # k /\ cases[q.id] = q.row
      <4>1. k \notin ToSet(old.cases)
        BY <1>2, <1>6, <2>8 DEF DatasetsFit, Live, StoredIds, old
      <4>2. CASE q = r
        BY <1>3, <1>6, <2>8, <4>2
      <4>3. CASE q \in AsStored(ToSet(old.cases))
        BY <4>1, <4>3 DEF AsStored
      <4>. QED  BY <1>4, <4>2, <4>3
    <3>2. ASSUME NEW x \in row.hash, NEW v \in ToSet(todo), v.table = "cases", v.id = x.id PROVE v.row = RowOf(x)
      BY <1>7, <2>3, <2>6, <2>8, <3>1, <3>2
    <3>3. ASSUME NEW x \in row.hash PROVE x.id \in WrittenIds(todo)
      BY <1>4, <1>7, <2>3, <2>4, <2>8
    <3>4. ASSUME NEW v \in ToSet(todo), NEW w \in ToSet(todo), v.table = "cases", w.table = "cases", v.id = w.id
          PROVE  v.row = w.row /\ (cases[w.id] = Null \/ cases[w.id] = w.row)
      <4>1. PICK p \in ToSet(rows), q \in ToSet(rows) : v.id = p.id /\ v.row = p.row /\ w.id = q.id /\ w.row = q.row
        BY <2>6, <3>4
      <4>. QED  BY <3>1, <3>4, <4>1
    <3>. QED  BY <2>5, <2>6, <3>2, <3>3, <3>4 DEF PlanHashes
  <2>9. Begin(c, todo, answer)
    BY <1>1 DEF todo, answer, r
  <2>. QED  BY <1>5, <2>4, <2>7, <2>8, <2>9 DEF Planned, Answers, answer
<1>11. CASE old.status # "frozen"
  <2>. DEFINE row == [old EXCEPT !.cases = Ids(rows), !.hash = compute_manifest_hash(rows),
                                 !.stats = compute_statistics(rows)]
              last == IF IsDuplicated(Ids(rows)) THEN Raise ELSE PutDataset(d, row)
  <2>1. todo = PutCases(<<r>>) \o <<last>>
    <3>1. PutCases(<<r>>) = <<PutCase(r)>>
      BY DEF PutCases
    <3>. QED  BY <1>11, <3>1 DEF AppendTodo, todo, rows, old
  <2>2. target = d
    BY <1>1, <1>11 DEF old
  <2>3. /\ row.hash = compute_manifest_hash(rows) /\ row.cases = Ids(rows) /\ row.stats = compute_statistics(rows)
        /\ row.status = old.status
    BY <1>2 DEF DatasetRow
  <2>4. ~IsDuplicated(Ids(rows)) => row \in DatasetRow /\ Sound(row)
    <3>1. Ids(rows) \in Seq(CaseIds) /\ Len(rows) \in Nat
      BY <1>4, NamedRows
    <3>2. ASSUME ~IsDuplicated(Ids(rows)) PROVE row \in DatasetRow /\ Sound(row)
      <4>1. /\ compute_manifest_hash(rows) \in SUBSET Dump
            /\ {x.id : x \in compute_manifest_hash(rows)} = ToSet(Ids(rows))
            /\ compute_statistics(rows) = [total |-> Len(rows)]
            /\ Cardinality(ToSet(Ids(rows))) = Len(Ids(rows)) /\ Len(Ids(rows)) = Len(rows)
        BY <1>4, <3>2, Built
      <4>2. compute_statistics(rows) \in [total : Nat]
        BY <3>1, <4>1
      <4>3. row \in DatasetRow
        BY <1>2, <3>1, <4>1, <4>2 DEF DatasetRow
      <4>. QED  BY <2>3, <4>1, <4>3 DEF Sound
    <3>. QED  BY <3>2
  <2>. HIDE DEF row
  <2>5. /\ PutDataset(d, row).table = "datasets" /\ PutDataset(d, row).id = d /\ PutDataset(d, row).row = row
    BY DEF PutDataset
  <2>6. last \in DatasetWrite \cup {Raise} /\ (last # Raise => last.row = row /\ Sound(row))
    BY <2>4, <2>5 DEF PutDataset, DatasetWrite
  <2>7. <<r>> \in Seq(NamedRow) /\ ToSet(<<r>>) = {r}
    BY <1>3, Elements
  <2>8. WritesOf(<<r>>) = {PutCase(r)} /\ IdsOf(<<r>>) = {k}
    BY <1>3, <2>7 DEF WritesOf, IdsOf
  <2>9. ToSet(old.cases) \subseteq StoredIds(cases)
    BY <1>2 DEF DatasetsFit, old
  <2>10. /\ todo \in Seq(Writes) /\ PlanFits(todo, StoredIds(cases))
         /\ ToSet(todo) = {PutCase(r), last} /\ WrittenIds(todo) = {k}
    <3>1. ToSet(row.cases) \subseteq StoredIds(cases) \cup IdsOf(<<r>>)
      BY <1>4, <2>3, <2>8, <2>9
    <3>2. last # Raise => Sound(last.row) /\ ToSet(last.row.cases) \subseteq StoredIds(cases) \cup IdsOf(<<r>>)
      BY <2>6, <3>1
    <3>. HIDE DEF last
    <3>3. LET plan == PutCases(<<r>>) \o <<last>>
          IN  /\ plan \in Seq(Writes) /\ PlanFits(plan, StoredIds(cases))
              /\ ToSet(plan) = WritesOf(<<r>>) \cup {last} /\ WrittenIds(plan) = IdsOf(<<r>>)
      BY <2>6, <2>7, <3>2, CasesThenLast
    <3>. QED  BY <2>1, <2>8, <3>3
  <2>11. \A w \in ToSet(todo) : w.table = "datasets" => w.id = d /\ w.row = row /\ ~IsDuplicated(Ids(rows))
    BY <1>8, <1>9, <2>5, <2>10
  <2>12. \A w \in ToSet(todo) : w.table = "cases" => w.id = k /\ w.row = r.row
    BY <1>3, <1>8, <1>9, <2>5, <2>10
  <2>13. Promised(todo, answer)
    <3>1. Replaces(datasets[d], row)
      BY <1>4, <1>11, <2>3 DEF Replaces, old
    <3>2. \/ Raise \in ToSet(todo)
          \/ \E w \in ToSet(todo) : w.table = "datasets" /\ w.id = d /\ k \in ToSet(w.row.cases)
      BY <1>4, <2>3, <2>5, <2>10
    <3>3. \A l \in CaseIds, e \in DatasetIds : answer = [append |-> <<l, e>>] => l = k /\ e = d
      BY <2>2 DEF answer
    <3>. QED  BY <2>11, <3>1, <3>2, <3>3 DEF Promised, Keeps
  <2>14. ASSUME ~Shared, HashesFit PROVE PlanHashes(cases, todo)
    <3>1. cases[k] = Null
      BY <1>6, <2>14
    <3>2. ASSUME NEW x \in row.hash
          PROVE  /\ \A v \in ToSet(todo) : v.table = "cases" /\ v.id = x.id => v.row = RowOf(x)
                 /\ x.id \notin WrittenIds(todo) => cases[x.id] = RowOf(x)
      BY <1>7, <2>3, <2>10, <2>12, <2>14, <3>2
    <3>. QED  BY <2>11, <2>12, <3>1, <3>2 DEF PlanHashes
  <2>15. Begin(c, todo, answer)
    BY <1>1 DEF todo, answer, r
  <2>. QED  BY <1>5, <2>10, <2>13, <2>14, <2>15 DEF Planned, Answers, answer
<1>. QED  BY <1>10, <1>11

LEMMA LaunchPlans ==
    ASSUME DatasetConstants, DatasetsFit, NEW c \in Clients, launch_ref(c)
    PROVE  \E todo \in Seq(Writes), answer \in Launches :
              /\ Begin(c, todo, answer) /\ Planned(todo, answer)
              /\ \A w \in ToSet(todo) : w.table = "cases"
<1>1. PICK e \in Experiments, d \in DatasetIds :
          /\ datasets[d] # Null
          /\ LET rows == Listed(datasets[d].cases)
             IN  Begin(c, PutCases(StampedBy(e, rows)), [launch |-> e, over |-> ToSet(Ids(rows))])
  BY DEF launch_ref
<1>. DEFINE rows == Listed(datasets[d].cases)
<1>2. rows \in Seq(NamedRow)
  BY <1>1, ListedRows DEF DatasetConstants, DatasetsFit, Live
<1>. HIDE DEF rows
<1>3. StampedBy(e, rows) \in Seq(NamedRow)
  <2>1. Len(rows) \in Nat /\ \A i \in 1..Len(rows) : rows[i] \in NamedRow
    BY <1>2
  <2>2. \A q \in NamedRow : [q EXCEPT !.row.exp = e] \in NamedRow
    BY DEF NamedRow, CaseRow
  <2>. QED  BY <2>1, <2>2 DEF StampedBy
<1>4. PutCases(StampedBy(e, rows)) \in Seq(CaseWrite) /\ PutCases(StampedBy(e, rows)) \in Seq(Writes)
  BY <1>3, NamedRows
<1>5. \A w \in ToSet(PutCases(StampedBy(e, rows))) : w.table = "cases"
  <2>1. ToSet(PutCases(StampedBy(e, rows))) \subseteq CaseWrite
    BY <1>4, Elements
  <2>. QED  BY <2>1 DEF CaseWrite
<1>6. [launch |-> e, over |-> ToSet(Ids(rows))] \in Launches
  <2>1. Ids(rows) \in Seq(CaseIds)
    BY <1>2, NamedRows
  <2>2. ToSet(Ids(rows)) \subseteq CaseIds
    BY <2>1, Elements
  <2>. QED  BY <2>2 DEF Launches
<1>7. PlanFits(PutCases(StampedBy(e, rows)), StoredIds(cases))
  BY <1>3, CasesOnly
<1>. QED  BY <1>1, <1>4, <1>5, <1>6, <1>7 DEF Planned, Answers, rows

LEMMA OneRow ==
    ASSUME NEW q \in NamedRow
    PROVE  <<q>> \in Seq(NamedRow) /\ Ids(<<q>>) = <<q.id>>
BY DEF Ids

LEMMA InlinePlans ==
    ASSUME DatasetConstants, DatasetsFit, NEW c \in Clients, launch_inline(c)
    PROVE  \E todo \in Seq(Writes), answer \in Launches : Begin(c, todo, answer) /\ Planned(todo, answer)
<1>1. PICK e \in Experiments, k \in CaseIds, b \in Bodies :
          Begin(c, InlineTodo(e, <<Named(k, b)>>), [launch |-> e, over |-> {k}])
  BY DEF launch_inline
<1>. DEFINE rows == StampedBy(e, <<Named(k, b)>>)
            row == build_dataset("regression", rows, "active", Null)
<1>2. rows = <<[id |-> k, row |-> [body |-> b, exp |-> e]]>>
  BY DEF StampedBy, Named
<1>3. rows \in Seq(NamedRow) /\ Ids(rows) = <<k>> /\ Ids(<<Named(k, b)>>) = <<k>>
  <2>1. PICK q \in NamedRow : q = [id |-> k, row |-> [body |-> b, exp |-> e]]
    BY DEF NamedRow, CaseRow
  <2>2. rows = <<q>> /\ q.id = k
    BY <1>2, <2>1
  <2>3. rows \in Seq(NamedRow) /\ Ids(rows) = <<k>>
    BY <2>2, OneRow
  <2>4. Ids(<<Named(k, b)>>) = <<k>>
    BY DEF Ids, Named
  <2>. QED  BY <2>2, <2>3, <2>4
<1>. HIDE DEF rows
<1>4. ~IsDuplicated(<<k>>)
  <2>1. ToSet(<<k>>) = {k} /\ Len(<<k>>) = 1
    BY Elements
  <2>. QED  BY <2>1, FS_Singleton DEF IsDuplicated
<1>5. InlineTodo(e, <<Named(k, b)>>) = persist_dataset(InlineId[e], "regression", rows, "active", Null)
  BY <1>3, <1>4 DEF InlineTodo, persist_dataset, rows
<1>6. /\ InlineTodo(e, <<Named(k, b)>>) \in Seq(Writes)
      /\ PlanFits(InlineTodo(e, <<Named(k, b)>>), StoredIds(cases))
  <2>1. InlineId[e] \in DatasetIds
    BY DEF DatasetConstants
  <2>. QED  BY <1>3, <1>5, <2>1, PersistFits
<1>7. [launch |-> e, over |-> {k}] \in Launches
  BY DEF Launches
<1>. QED  BY <1>1, <1>6, <1>7 DEF Planned, Answers

-----------------------------------------------------------------------------
(* Steps.                                                                    *)
LEMMA NothingPlanned == PlanFits(<<>>, {}) /\ \A there : PlanFits(<<>>, there)
<1>1. ToSet(<<>>) = {}
  BY Elements
<1>2. Len(<<>>) = 0 /\ 1..0 = {}
  OBVIOUS
<1>. QED  BY <1>1, <1>2 DEF PlanFits

LEMMA PlanStaysFit ==
    ASSUME NEW todo, NEW there, NEW more, PlanFits(todo, there), there \subseteq more
    PROVE  PlanFits(todo, more)
BY DEF PlanFits

LEMMA BeginFits ==
    ASSUME DatasetsFit, NEW c \in Clients, NEW todo, NEW answer,
           Planned(todo, answer), Begin(c, todo, answer)
    PROVE  DatasetsFit'
<1>. DEFINE h == [todo |-> todo, busy |-> TRUE, answer |-> answer]
<1>1. h \in Handler /\ h.busy /\ PlanFits(h.todo, StoredIds(cases))
  BY DEF Planned, Answers, Handler
<1>2. client' = [client EXCEPT ![c] = h] /\ cases' = cases /\ datasets' = datasets
  BY DEF Begin
<1>. HIDE DEF h
<1>3. /\ client' \in [Clients -> Handler] /\ client'[c] = h
      /\ \A d \in Clients : d # c => client'[d] = client[d]
  BY <1>1, <1>2 DEF DatasetsFit
<1>4. \A d \in Clients : PlanFits(client'[d].todo, StoredIds(cases'))
  BY <1>1, <1>2, <1>3 DEF DatasetsFit
<1>5. \A d \in Clients : ~client'[d].busy => client'[d] = Idle
  BY <1>1, <1>3 DEF DatasetsFit
<1>. QED  BY <1>2, <1>3, <1>4, <1>5 DEF DatasetsFit, Live

LEMMA IdleFits ==
    ASSUME DatasetsFit, NEW c \in Clients, client' = [client EXCEPT ![c] = Idle],
           UNCHANGED <<cases, datasets>>
    PROVE  DatasetsFit'
<1>1. Idle \in Handler /\ Idle.todo = <<>>
  BY DEF Idle, Handler
<1>2. /\ client' \in [Clients -> Handler] /\ client'[c] = Idle
      /\ \A d \in Clients : d # c => client'[d] = client[d]
  BY <1>1 DEF DatasetsFit
<1>3. \A d \in Clients : PlanFits(client'[d].todo, StoredIds(cases'))
  BY <1>1, <1>2, NothingPlanned DEF DatasetsFit
<1>4. \A d \in Clients : ~client'[d].busy => client'[d] = Idle
  BY <1>2 DEF DatasetsFit
<1>. QED  BY <1>2, <1>3, <1>4 DEF DatasetsFit, Live

(* A write: the rest of the plan still fits the rows that are there now.      *)
LEMMA PutWrites ==
    ASSUME DatasetsFit, NEW c \in Clients, put_entity(c)
    PROVE  \E w \in Writes, rest \in Seq(Writes) :
              /\ ToSet(client[c].todo) = {w} \cup ToSet(rest)
              /\ client[c].busy
              /\ client' = [client EXCEPT ![c] = [client[c] EXCEPT !.todo = rest]]
              /\ w # Raise
              /\ \/ /\ w \in CaseWrite /\ PlanFits(rest, StoredIds(cases) \cup {w.id})
                    /\ cases' = [cases EXCEPT ![w.id] = w.row] /\ datasets' = datasets
                 \/ /\ w \in DatasetWrite /\ rest = <<>>
                    /\ Sound(w.row) /\ ToSet(w.row.cases) \subseteq StoredIds(cases)
                    /\ datasets' = [datasets EXCEPT ![w.id] = w.row] /\ cases' = cases
<1>. DEFINE todo == client[c].todo
            w == Head(todo)
            rest == Tail(todo)
<1>1. todo \in Seq(Writes) /\ todo # <<>> /\ PlanFits(todo, StoredIds(cases))
  BY DEF DatasetsFit, Handler, put_entity
<1>2. w.table # "raise"
  BY DEF put_entity
<1>3. /\ cases' = IF w.table = "cases" THEN [cases EXCEPT ![w.id] = w.row] ELSE cases
      /\ datasets' = IF w.table = "datasets" THEN [datasets EXCEPT ![w.id] = w.row] ELSE datasets
      /\ client' = [client EXCEPT ![c] = [client[c] EXCEPT !.todo = rest]]
  BY DEF put_entity
<1>4. client[c].busy
  BY <1>1 DEF DatasetsFit, Idle, Handler
<1>. HIDE DEF todo
<1>5. /\ rest \in Seq(Writes) /\ w \in Writes
      /\ ToSet(todo) = {w} \cup ToSet(rest)
      /\ w.table = "cases" => PlanFits(rest, StoredIds(cases) \cup {w.id})
      /\ w.table # "cases" => rest = <<>>
      /\ w.table = "datasets" => Sound(w.row) /\ ToSet(w.row.cases) \subseteq StoredIds(cases)
  BY <1>1, PlanGoesOn
<1>. HIDE DEF w, rest
<1>6. w.table \in {"cases", "datasets"} /\ w # Raise
  BY <1>2, <1>5, WriteKinds
<1>7. CASE w.table = "cases"
  <2>1. w \in CaseWrite
    BY <1>5, <1>7, WriteKinds
  <2>. QED  BY <1>3, <1>4, <1>5, <1>6, <1>7, <2>1 DEF todo
<1>8. CASE w.table = "datasets"
  <2>1. w \in DatasetWrite
    BY <1>5, <1>8, WriteKinds
  <2>. QED  BY <1>3, <1>4, <1>5, <1>6, <1>8, <2>1 DEF todo
<1>. QED  BY <1>6, <1>7, <1>8

LEMMA PutFits ==
    ASSUME DatasetConstants, DatasetsFit, NEW c \in Clients, put_entity(c)
    PROVE  DatasetsFit'
<1>1. PICK w \in Writes, rest \in Seq(Writes) :
         /\ ToSet(client[c].todo) = {w} \cup ToSet(rest)
         /\ client[c].busy
         /\ client' = [client EXCEPT ![c] = [client[c] EXCEPT !.todo = rest]]
         /\ \/ /\ w \in CaseWrite /\ PlanFits(rest, StoredIds(cases) \cup {w.id})
               /\ cases' = [cases EXCEPT ![w.id] = w.row] /\ datasets' = datasets
            \/ /\ w \in DatasetWrite /\ rest = <<>>
               /\ Sound(w.row) /\ ToSet(w.row.cases) \subseteq StoredIds(cases)
               /\ datasets' = [datasets EXCEPT ![w.id] = w.row] /\ cases' = cases
  BY PutWrites
<1>. DEFINE h == [client[c] EXCEPT !.todo = rest]
<1>2. h \in Handler /\ h.todo = rest /\ h.busy
  BY <1>1, ZenonT(30) DEF DatasetsFit, Handler
<1>. HIDE DEF h
<1>3. /\ client' \in [Clients -> Handler] /\ client'[c] = h
      /\ \A d \in Clients : d # c => client'[d] = client[d]
  BY <1>1, <1>2 DEF DatasetsFit, h
<1>4. \A d \in Clients : ~client'[d].busy => client'[d] = Idle
  BY <1>2, <1>3 DEF DatasetsFit
<1>5. ASSUME w \in CaseWrite, PlanFits(rest, StoredIds(cases) \cup {w.id}),
             cases' = [cases EXCEPT ![w.id] = w.row], datasets' = datasets
      PROVE  DatasetsFit'
  <2>1. w.id \in CaseIds /\ w.row \in CaseRow /\ w.row # Null
    BY <1>5 DEF CaseWrite, DatasetConstants
  <2>2. cases' \in [CaseIds -> CaseRow \cup {Null}]
    BY <1>5, <2>1 DEF DatasetsFit
  <2>3. StoredIds(cases') = StoredIds(cases) \cup {w.id}
    BY <1>5, <2>1 DEF DatasetsFit, StoredIds
  <2>4. \A d \in Clients : PlanFits(client'[d].todo, StoredIds(cases'))
    <3>. SUFFICES ASSUME NEW d \in Clients PROVE PlanFits(client'[d].todo, StoredIds(cases'))
      OBVIOUS
    <3>1. CASE d = c
      BY <1>2, <1>3, <1>5, <2>3, <3>1
    <3>2. CASE d # c
      <4>1. PlanFits(client[d].todo, StoredIds(cases)) /\ StoredIds(cases) \subseteq StoredIds(cases')
        BY <2>3 DEF DatasetsFit
      <4>2. PlanFits(client[d].todo, StoredIds(cases'))
        BY <4>1, PlanStaysFit
      <4>. QED  BY <1>3, <3>2, <4>2
    <3>. QED  BY <3>1, <3>2
  <2>5. \A d \in Live : ToSet(datasets[d].cases) \subseteq StoredIds(cases')
    BY <2>3 DEF DatasetsFit
  <2>. QED  BY <1>3, <1>4, <1>5, <2>2, <2>4, <2>5 DEF DatasetsFit, Live
<1>6. ASSUME w \in DatasetWrite, rest = <<>>, Sound(w.row), ToSet(w.row.cases) \subseteq StoredIds(cases),
             datasets' = [datasets EXCEPT ![w.id] = w.row], cases' = cases
      PROVE  DatasetsFit'
  <2>1. w.id \in DatasetIds /\ w.row \in DatasetRow
    BY <1>6 DEF DatasetWrite
  <2>2. /\ datasets' \in [DatasetIds -> DatasetRow \cup {Null}]
        /\ \A d \in DatasetIds : datasets'[d] = IF d = w.id THEN w.row ELSE datasets[d]
    BY <1>6, <2>1 DEF DatasetsFit
  <2>3. \A d \in Clients : PlanFits(client'[d].todo, StoredIds(cases'))
    BY <1>2, <1>3, <1>6, NothingPlanned DEF DatasetsFit
  <2>4. \A d \in DatasetIds : datasets'[d] # Null =>
           Sound(datasets'[d]) /\ ToSet(datasets'[d].cases) \subseteq StoredIds(cases)
    BY <1>6, <2>2 DEF DatasetsFit, Live
  <2>. QED  BY <1>3, <1>4, <1>6, <2>2, <2>3, <2>4 DEF DatasetsFit, Live
<1>. QED  BY <1>1, <1>5, <1>6

LEMMA DatasetsFitNext == ASSUME DatasetConstants, DatasetsFit, [Next]_vars PROVE DatasetsFit'
<1>1. CASE UNCHANGED vars
  BY <1>1 DEF vars, DatasetsFit, Live
<1>2. ASSUME NEW c \in Clients, create_dataset(c) PROVE DatasetsFit'
  BY <1>2, CreatePlans, BeginFits
<1>3. ASSUME NEW c \in Clients, append_case_to_dataset(c) PROVE DatasetsFit'
  BY <1>3, AppendPlans, BeginFits
<1>4. ASSUME NEW c \in Clients, freeze_dataset(c) PROVE DatasetsFit'
  BY <1>4, FreezePlans, BeginFits
<1>5. ASSUME NEW c \in Clients, launch_ref(c) PROVE DatasetsFit'
  BY <1>5, LaunchPlans, BeginFits
<1>6. ASSUME NEW c \in Clients, launch_inline(c) PROVE DatasetsFit'
  BY <1>6, InlinePlans, BeginFits
<1>7. ASSUME NEW c \in Clients, put_entity(c) PROVE DatasetsFit'
  BY <1>7, PutFits
<1>8. ASSUME NEW c \in Clients, Raised(c) \/ Answer(c) \/ Die(c) PROVE DatasetsFit'
  BY <1>8, IdleFits DEF Raised, Answer, Die
<1>. QED  BY <1>1, <1>2, <1>3, <1>4, <1>5, <1>6, <1>7, <1>8 DEF Next, Request

LEMMA DatasetsFitInit == ASSUME Init PROVE DatasetsFit
<1>1. Idle \in Handler /\ Idle.todo = <<>>
  BY DEF Idle, Handler
<1>2. \A d \in DatasetIds : datasets[d] = Null
  BY DEF Init
<1>. QED  BY <1>1, <1>2, NothingPlanned DEF Init, DatasetsFit, Live

-----------------------------------------------------------------------------
(* One request at a time: what was appended stays.                           *)
OneRequest == Serial /\ "inline" \notin Offered

LEMMA IdleKeeps == ASSUME DatasetConstants, NEW ds PROVE Keeps(Idle, ds)
<1>1. ToSet(<<>>) = {} /\ Idle.todo = <<>> /\ Idle.answer = Null
  BY Elements DEF Idle
<1>2. \A k \in CaseIds, d \in DatasetIds : [append |-> <<k, d>>] \in Appends
  BY DEF Appends
<1>. QED  BY <1>1, <1>2 DEF Keeps, DatasetConstants

LEMMA BeginKeeps ==
    ASSUME DatasetsFit, AppendsFit, NEW c \in Clients, NEW todo, NEW answer,
           \A d \in Clients : ~client[d].busy, Promised(todo, answer), Begin(c, todo, answer)
    PROVE  AppendsFit'
<1>. DEFINE h == [todo |-> todo, busy |-> TRUE, answer |-> answer]
<1>1. Keeps(h, datasets)
  BY DEF Promised
<1>2. /\ client' = [client EXCEPT ![c] = h] /\ datasets' = datasets /\ appended' = appended
  BY DEF Begin
<1>. HIDE DEF h
<1>3. client'[c] = h /\ \A d \in Clients : d # c => client'[d] = client[d]
  BY <1>2 DEF DatasetsFit
<1>4. \A d \in Clients : Keeps(client'[d], datasets')
  BY <1>1, <1>2, <1>3 DEF AppendsFit
<1>5. \A d, e \in Clients : client'[d].busy /\ client'[e].busy => d = e
  BY <1>3
<1>. QED  BY <1>2, <1>4, <1>5 DEF AppendsFit

LEMMA IdleAppends ==
    ASSUME DatasetConstants, DatasetsFit, AppendsFit, NEW c \in Clients,
           client' = [client EXCEPT ![c] = Idle], datasets' = datasets,
           \A a \in appended' : \/ a \in appended
                                \/ \E k \in CaseIds, d \in DatasetIds : a = <<k, d>> /\ InCases(k, datasets[d])
    PROVE  AppendsFit'
<1>1. client'[c] = Idle /\ ~Idle.busy /\ \A d \in Clients : d # c => client'[d] = client[d]
  BY DEF DatasetsFit, Idle
<1>2. \A d \in Clients : Keeps(client'[d], datasets')
  BY <1>1, IdleKeeps DEF AppendsFit
<1>3. \A d, e \in Clients : client'[d].busy /\ client'[e].busy => d = e
  BY <1>1 DEF AppendsFit
<1>4. \A a \in appended' : \E k \in CaseIds, d \in DatasetIds : a = <<k, d>> /\ InCases(k, datasets'[d])
  BY DEF AppendsFit
<1>. QED  BY <1>2, <1>3, <1>4 DEF AppendsFit

LEMMA AnswerKeeps ==
    ASSUME DatasetConstants, DatasetsFit, AppendsFit, NEW c \in Clients, Answer(c)
    PROVE  AppendsFit'
<1>. DEFINE answer == client[c].answer
<1>1. client[c].todo = <<>> /\ ToSet(<<>>) = {}
  BY Elements DEF Answer
<1>2. \A k \in CaseIds, d \in DatasetIds : answer = [append |-> <<k, d>>] => InCases(k, datasets[d])
  BY <1>1 DEF AppendsFit, Keeps
<1>3. answer \in Answers
  BY DEF DatasetsFit, Handler, Answers
<1>4. /\ appended' = IF answer # Null /\ "append" \in DOMAIN answer THEN appended \cup {answer.append} ELSE appended
      /\ client' = [client EXCEPT ![c] = Idle] /\ datasets' = datasets
  BY DEF Answer
<1>. HIDE DEF answer
<1>5. CASE answer # Null /\ "append" \in DOMAIN answer
  <2>1. answer \notin Launches
    BY <1>5 DEF Launches
  <2>2. PICK k \in CaseIds, d \in DatasetIds : answer = [append |-> <<k, d>>]
    BY <1>3, <1>5, <2>1 DEF Answers, Appends
  <2>3. appended' = appended \cup {<<k, d>>} /\ InCases(k, datasets[d])
    BY <1>2, <1>4, <1>5, <2>2
  <2>. QED  BY <1>4, <2>3, IdleAppends
<1>6. CASE ~(answer # Null /\ "append" \in DOMAIN answer)
  BY <1>4, <1>6, IdleAppends
<1>. QED  BY <1>5, <1>6

LEMMA PutKeeps ==
    ASSUME DatasetConstants, DatasetsFit, AppendsFit, NEW c \in Clients, put_entity(c)
    PROVE  AppendsFit' /\ FrozenStaysAsIs
<1>1. PICK w \in Writes, rest \in Seq(Writes) :
         /\ ToSet(client[c].todo) = {w} \cup ToSet(rest)
         /\ client[c].busy
         /\ client' = [client EXCEPT ![c] = [client[c] EXCEPT !.todo = rest]]
         /\ w # Raise
         /\ \/ w \in CaseWrite /\ datasets' = datasets
            \/ w \in DatasetWrite /\ rest = <<>> /\ datasets' = [datasets EXCEPT ![w.id] = w.row]
  BY PutWrites
<1>. DEFINE h == [client[c] EXCEPT !.todo = rest]
<1>2. h.todo = rest /\ h.busy /\ h.answer = client[c].answer
  BY <1>1 DEF DatasetsFit, Handler
<1>. HIDE DEF h
<1>3. client'[c] = h /\ \A d \in Clients : d # c => client'[d] = client[d]
  BY <1>1 DEF DatasetsFit, h
<1>4. \A d, e \in Clients : client'[d].busy /\ client'[e].busy => d = e
  BY <1>1, <1>2, <1>3 DEF AppendsFit
<1>5. \A d \in Clients : d # c => client'[d] = Idle
  BY <1>1, <1>3 DEF AppendsFit, DatasetsFit
<1>6. appended' = appended
  BY DEF put_entity
<1>7. Keeps(client[c], datasets)
  BY DEF AppendsFit
<1>8. ASSUME w \in CaseWrite, datasets' = datasets PROVE AppendsFit' /\ FrozenStaysAsIs
  <2>1. w.table # "datasets"
    BY <1>8 DEF CaseWrite
  <2>2. Keeps(h, datasets)
    BY <1>1, <1>2, <1>7, <2>1 DEF Keeps
  <2>3. \A d \in Clients : Keeps(client'[d], datasets')
    BY <1>3, <1>5, <1>8, <2>2, IdleKeeps
  <2>. QED  BY <1>4, <1>6, <1>8, <2>3 DEF AppendsFit, FrozenStaysAsIs
<1>9. ASSUME w \in DatasetWrite, rest = <<>>, datasets' = [datasets EXCEPT ![w.id] = w.row]
      PROVE  AppendsFit' /\ FrozenStaysAsIs
  <2>1. w.id \in DatasetIds /\ w.row \in DatasetRow /\ w.row # Null /\ w.table = "datasets"
    BY <1>9 DEF DatasetWrite, DatasetConstants
  <2>2. \A d \in DatasetIds : datasets'[d] = IF d = w.id THEN w.row ELSE datasets[d]
    BY <1>9, <2>1 DEF DatasetsFit
  <2>3. ToSet(client[c].todo) = {w} /\ ToSet(rest) = {}
    BY <1>1, <1>9, Elements
  <2>4. Replaces(datasets[w.id], w.row)
    BY <1>7, <2>1, <2>3 DEF Keeps
  <2>5. ASSUME NEW k \in CaseIds, NEW d \in DatasetIds, InCases(k, datasets[d]) PROVE InCases(k, datasets'[d])
    BY <2>1, <2>2, <2>4, <2>5 DEF InCases, Replaces
  <2>6. Keeps(h, datasets')
    <3>1. ASSUME NEW k \in CaseIds, NEW d \in DatasetIds, h.answer = [append |-> <<k, d>>]
          PROVE  InCases(k, datasets'[d])
      <4>1. \/ w.id = d /\ k \in ToSet(w.row.cases)
            \/ InCases(k, datasets[d])
        BY <1>1, <1>2, <1>7, <2>3, <3>1 DEF Keeps
      <4>. QED  BY <2>1, <2>2, <2>5, <4>1 DEF InCases
    <3>. QED  BY <1>2, <2>3, <3>1 DEF Keeps
  <2>7. \A d \in Clients : Keeps(client'[d], datasets')
    BY <1>3, <1>5, <2>6, IdleKeeps
  <2>8. \A a \in appended' : \E k \in CaseIds, d \in DatasetIds : a = <<k, d>> /\ InCases(k, datasets'[d])
    BY <1>6, <2>5 DEF AppendsFit
  <2>9. FrozenStaysAsIs
    BY <2>2, <2>4 DEF FrozenStaysAsIs, Replaces, Live
  <2>. QED  BY <1>4, <2>7, <2>8, <2>9 DEF AppendsFit
<1>. QED  BY <1>1, <1>8, <1>9

LEMMA AppendsFitNext ==
    ASSUME DatasetConstants, OneRequest, DatasetsFit, AppendsFit, [Next]_vars
    PROVE  AppendsFit' /\ FrozenStaysAsIs
<1>1. CASE UNCHANGED vars
  BY <1>1 DEF vars, AppendsFit, FrozenStaysAsIs
<1>2. ASSUME NEW c \in Clients, create_dataset(c) PROVE AppendsFit' /\ FrozenStaysAsIs
  <2>1. PICK todo \in Seq(Writes) : /\ Begin(c, todo, Null)
                                    /\ \A w \in ToSet(todo) : w.table = "datasets" => datasets[w.id] = Null
    BY <1>2, CreatePlans
  <2>2. Promised(todo, Null)
    <3>1. \A k \in CaseIds, d \in DatasetIds : Null # [append |-> <<k, d>>]
      BY DEF DatasetConstants, Appends
    <3>. QED  BY <2>1, <3>1 DEF Promised, Keeps, Replaces
  <2>3. \A d \in Clients : ~client[d].busy
    BY <1>2 DEF create_dataset, Start, OneRequest
  <2>. QED  BY <2>1, <2>2, <2>3, BeginKeeps DEF Begin, FrozenStaysAsIs
<1>3. ASSUME NEW c \in Clients, append_case_to_dataset(c) PROVE AppendsFit' /\ FrozenStaysAsIs
  <2>1. PICK todo \in Seq(Writes), answer \in Appends : Begin(c, todo, answer) /\ Promised(todo, answer)
    BY <1>3, AppendPlans
  <2>2. \A d \in Clients : ~client[d].busy
    BY <1>3 DEF append_case_to_dataset, Start, OneRequest
  <2>. QED  BY <2>1, <2>2, BeginKeeps DEF Begin, FrozenStaysAsIs
<1>4. ASSUME NEW c \in Clients, freeze_dataset(c) PROVE AppendsFit' /\ FrozenStaysAsIs
  <2>1. PICK todo \in Seq(Writes) : /\ Begin(c, todo, Null)
                                    /\ \A w \in ToSet(todo) : w.table = "datasets" => Replaces(datasets[w.id], w.row)
    BY <1>4, FreezePlans
  <2>2. Promised(todo, Null)
    <3>1. \A k \in CaseIds, d \in DatasetIds : Null # [append |-> <<k, d>>]
      BY DEF DatasetConstants, Appends
    <3>. QED  BY <2>1, <3>1 DEF Promised, Keeps
  <2>3. \A d \in Clients : ~client[d].busy
    BY <1>4 DEF freeze_dataset, Start, OneRequest
  <2>. QED  BY <2>1, <2>2, <2>3, BeginKeeps DEF Begin, FrozenStaysAsIs
<1>5. ASSUME NEW c \in Clients, launch_ref(c) PROVE AppendsFit' /\ FrozenStaysAsIs
  <2>1. PICK todo \in Seq(Writes), answer \in Launches : Begin(c, todo, answer) /\ \A w \in ToSet(todo) : w.table = "cases"
    BY <1>5, LaunchPlans
  <2>2. Promised(todo, answer)
    BY <2>1, NoAppend DEF Promised, Keeps
  <2>3. \A d \in Clients : ~client[d].busy
    BY <1>5 DEF launch_ref, Start, OneRequest
  <2>. QED  BY <2>1, <2>2, <2>3, BeginKeeps DEF Begin, FrozenStaysAsIs
<1>6. ASSUME NEW c \in Clients, launch_inline(c) PROVE FALSE
  BY <1>6 DEF launch_inline, Start, OneRequest
<1>7. ASSUME NEW c \in Clients, put_entity(c) PROVE AppendsFit' /\ FrozenStaysAsIs
  BY <1>7, PutKeeps
<1>8. ASSUME NEW c \in Clients, Answer(c) PROVE AppendsFit' /\ FrozenStaysAsIs
  BY <1>8, AnswerKeeps DEF Answer, FrozenStaysAsIs
<1>9. ASSUME NEW c \in Clients, Raised(c) \/ Die(c) PROVE AppendsFit' /\ FrozenStaysAsIs
  <2>1. client' = [client EXCEPT ![c] = Idle] /\ datasets' = datasets /\ appended' = appended
    BY <1>9 DEF Raised, Die
  <2>. QED  BY <2>1, IdleAppends DEF FrozenStaysAsIs
<1>. QED  BY <1>1, <1>2, <1>3, <1>4, <1>5, <1>6, <1>7, <1>8, <1>9 DEF Next, Request

LEMMA AppendsFitInit == ASSUME DatasetConstants, Init PROVE AppendsFit
<1>1. \A c \in Clients : client[c] = Idle
  BY DEF Init
<1>2. \A c \in Clients : Keeps(client[c], datasets)
  BY <1>1, IdleKeeps
<1>3. \A c \in Clients : ~client[c].busy
  BY <1>1 DEF Idle
<1>. QED  BY <1>2, <1>3 DEF Init, AppendsFit

-----------------------------------------------------------------------------
(* One request at a time and no stamps: manifests stay true.                 *)
NoStamps == Serial /\ ~Shared /\ {"launch", "inline"} \cap Offered = {}

LEMMA IdleHashes == \A cs : PlanHashes(cs, <<>>)
<1>1. ToSet(<<>>) = {}
  BY Elements
<1>. QED  BY <1>1 DEF PlanHashes

LEMMA BeginHashes ==
    ASSUME DatasetsFit, HashesFit, NEW c \in Clients, NEW todo, NEW answer,
           PlanHashes(cases, todo), Begin(c, todo, answer)
    PROVE  HashesFit'
<1>. DEFINE h == [todo |-> todo, busy |-> TRUE, answer |-> answer]
<1>1. /\ client' = [client EXCEPT ![c] = h] /\ datasets' = datasets /\ cases' = cases /\ h.todo = todo
  BY DEF Begin
<1>. HIDE DEF h
<1>2. client'[c] = h /\ \A d \in Clients : d # c => client'[d] = client[d]
  BY <1>1 DEF DatasetsFit
<1>3. \A d \in Clients : PlanHashes(cases', client'[d].todo)
  BY <1>1, <1>2 DEF HashesFit
<1>. QED  BY <1>1, <1>3 DEF HashesFit, Live

LEMMA IdleKeepsHashes ==
    ASSUME DatasetsFit, HashesFit, NEW c \in Clients, client' = [client EXCEPT ![c] = Idle],
           UNCHANGED <<cases, datasets>>
    PROVE  HashesFit'
<1>1. client'[c] = Idle /\ Idle.todo = <<>> /\ \A d \in Clients : d # c => client'[d] = client[d]
  BY DEF DatasetsFit, Idle
<1>2. \A d \in Clients : PlanHashes(cases', client'[d].todo)
  BY <1>1, IdleHashes DEF HashesFit
<1>. QED  BY <1>2 DEF HashesFit, Live

LEMMA PutHashes ==
    ASSUME DatasetConstants, DatasetsFit, AppendsFit, HashesFit, NEW c \in Clients, put_entity(c)
    PROVE  HashesFit'
<1>1. PICK w \in Writes, rest \in Seq(Writes) :
         /\ ToSet(client[c].todo) = {w} \cup ToSet(rest)
         /\ client[c].busy
         /\ client' = [client EXCEPT ![c] = [client[c] EXCEPT !.todo = rest]]
         /\ \/ w \in CaseWrite /\ cases' = [cases EXCEPT ![w.id] = w.row] /\ datasets' = datasets
            \/ /\ w \in DatasetWrite /\ rest = <<>>
               /\ datasets' = [datasets EXCEPT ![w.id] = w.row] /\ cases' = cases
  BY PutWrites
<1>. DEFINE todo == client[c].todo
<1>2. client'[c].todo = rest /\ \A d \in Clients : d # c => client'[d] = client[d]
  BY <1>1 DEF DatasetsFit, Handler
<1>3. \A d \in Clients : d # c => client'[d].todo = <<>>
  BY <1>1, <1>2 DEF AppendsFit, DatasetsFit, Idle
<1>4. PlanHashes(cases, todo) /\ ToSet(todo) = {w} \cup ToSet(rest)
  BY <1>1 DEF HashesFit
<1>. HIDE DEF todo
<1>5. ASSUME w \in CaseWrite, cases' = [cases EXCEPT ![w.id] = w.row], datasets' = datasets
      PROVE  HashesFit'
  <2>1. w.id \in CaseIds /\ w.row \in CaseRow /\ w.table = "cases"
    BY <1>5 DEF CaseWrite
  <2>2. \A k \in CaseIds : cases'[k] = IF k = w.id THEN w.row ELSE cases[k]
    BY <1>5, <2>1 DEF DatasetsFit
  <2>3. /\ cases[w.id] = Null \/ cases[w.id] = w.row
        /\ \A v \in ToSet(todo) : v.table = "cases" /\ v.id = w.id => v.row = w.row
    BY <1>4, <2>1 DEF PlanHashes
  <2>4. \A x \in Dump : x.id \in CaseIds /\ RowOf(x) \in CaseRow
    BY DEF Dump, RowOf, CaseRow
  <2>5. ASSUME NEW x \in Dump, cases[x.id] = RowOf(x) PROVE cases'[x.id] = RowOf(x)
    BY <2>2, <2>3, <2>4, <2>5 DEF DatasetConstants
  <2>6. ASSUME NEW d \in Live, NEW x \in datasets[d].hash PROVE cases'[x.id] = RowOf(x)
    <3>1. x \in Dump
      BY <2>6 DEF DatasetsFit, Live, DatasetRow
    <3>. QED  BY <2>5, <2>6, <3>1 DEF HashesFit
  <2>7. PlanHashes(cases', rest)
    <3>1. ToSet(rest) \subseteq Writes
      BY Elements
    <3>2. ASSUME NEW v \in ToSet(rest), v.table = "cases" PROVE cases'[v.id] = Null \/ cases'[v.id] = v.row
      <4>1. v.id \in CaseIds
        BY <3>1, <3>2, WriteKinds DEF CaseWrite
      <4>2. cases[v.id] = Null \/ cases[v.id] = v.row
        BY <1>4, <3>2 DEF PlanHashes
      <4>3. v.id = w.id => v.row = w.row
        BY <1>4, <2>3, <3>2
      <4>. QED  BY <2>2, <4>1, <4>2, <4>3
    <3>3. ASSUME NEW v \in ToSet(rest), v.table = "datasets", NEW x \in v.row.hash, x.id \notin WrittenIds(rest)
          PROVE  cases'[x.id] = RowOf(x)
      <4>1. v.row \in DatasetRow
        BY <3>1, <3>3, WriteKinds DEF DatasetWrite
      <4>2. x \in Dump
        BY <3>3, <4>1 DEF DatasetRow
      <4>3. CASE x.id = w.id
        <5>1. w.row = RowOf(x)
          BY <1>4, <2>1, <3>3, <4>3 DEF PlanHashes
        <5>. QED  BY <2>2, <2>4, <4>2, <4>3, <5>1
      <4>4. CASE x.id # w.id
        <5>1. x.id \notin WrittenIds(todo)
          BY <1>4, <3>3, <4>4 DEF WrittenIds
        <5>2. cases[x.id] = RowOf(x)
          BY <1>4, <3>3, <5>1 DEF PlanHashes
        <5>. QED  BY <2>5, <4>2, <5>2
      <4>. QED  BY <4>3, <4>4
    <3>4. ASSUME NEW v \in ToSet(rest), v.table = "cases", NEW u \in ToSet(rest), u.table = "cases", u.id = v.id
          PROVE  u.row = v.row
      BY <1>4, <3>4 DEF PlanHashes
    <3>5. ASSUME NEW v \in ToSet(rest), v.table = "datasets", NEW x \in v.row.hash,
                 NEW u \in ToSet(rest), u.table = "cases", u.id = x.id
          PROVE  u.row = RowOf(x)
      BY <1>4, <3>5 DEF PlanHashes
    <3>. QED  BY <3>2, <3>3, <3>4, <3>5 DEF PlanHashes
  <2>8. \A d \in Clients : PlanHashes(cases', client'[d].todo)
    BY <1>2, <1>3, <2>7, IdleHashes
  <2>. QED  BY <1>5, <2>6, <2>8 DEF HashesFit, Live
<1>6. ASSUME w \in DatasetWrite, rest = <<>>, datasets' = [datasets EXCEPT ![w.id] = w.row], cases' = cases
      PROVE  HashesFit'
  <2>1. w.id \in DatasetIds /\ w.table = "datasets"
    BY <1>6 DEF DatasetWrite
  <2>2. \A d \in DatasetIds : datasets'[d] = IF d = w.id THEN w.row ELSE datasets[d]
    BY <1>6, <2>1 DEF DatasetsFit
  <2>3. WrittenIds(todo) = {}
    <3>1. ToSet(todo) = {w}
      BY <1>4, <1>6, Elements
    <3>. QED  BY <2>1, <3>1 DEF WrittenIds
  <2>4. \A x \in w.row.hash : cases[x.id] = RowOf(x)
    BY <1>4, <2>1, <2>3 DEF PlanHashes
  <2>5. \A d \in DatasetIds : datasets'[d] # Null => \A x \in datasets'[d].hash : cases[x.id] = RowOf(x)
    BY <2>2, <2>4 DEF HashesFit, Live
  <2>6. \A d \in Clients : PlanHashes(cases', client'[d].todo)
    BY <1>2, <1>3, <1>6, IdleHashes
  <2>. QED  BY <1>6, <2>5, <2>6 DEF HashesFit, Live
<1>. QED  BY <1>1, <1>5, <1>6

LEMMA HashesFitNext ==
    ASSUME DatasetConstants, NoStamps, DatasetsFit, AppendsFit, HashesFit, [Next]_vars
    PROVE  HashesFit'
<1>1. CASE UNCHANGED vars
  BY <1>1 DEF vars, HashesFit, Live
<1>2. ASSUME NEW c \in Clients, create_dataset(c) PROVE HashesFit'
  BY <1>2, CreatePlans, BeginHashes DEF NoStamps
<1>3. ASSUME NEW c \in Clients, append_case_to_dataset(c) PROVE HashesFit'
  BY <1>3, AppendPlans, BeginHashes DEF NoStamps
<1>4. ASSUME NEW c \in Clients, freeze_dataset(c) PROVE HashesFit'
  BY <1>4, FreezePlans, BeginHashes
<1>5. ASSUME NEW c \in Clients, launch_ref(c) \/ launch_inline(c) PROVE FALSE
  BY <1>5 DEF launch_ref, launch_inline, Start, NoStamps
<1>6. ASSUME NEW c \in Clients, put_entity(c) PROVE HashesFit'
  BY <1>6, PutHashes
<1>7. ASSUME NEW c \in Clients, Raised(c) \/ Answer(c) \/ Die(c) PROVE HashesFit'
  BY <1>7, IdleKeepsHashes DEF Raised, Answer, Die
<1>. QED  BY <1>1, <1>2, <1>3, <1>4, <1>5, <1>6, <1>7 DEF Next, Request

LEMMA HashesFitInit == ASSUME Init PROVE HashesFit
<1>1. \A c \in Clients : client[c].todo = <<>>
  BY DEF Init, Idle
<1>. QED  BY <1>1, IdleHashes DEF Init, HashesFit, Live

LEMMA TrueManifests == ASSUME DatasetsFit, HashesFit PROVE ManifestIsCurrent
<1>. SUFFICES ASSUME NEW d \in Live PROVE datasets[d].hash = compute_manifest_hash(Stored(datasets[d].cases))
  BY DEF ManifestIsCurrent
<1>. DEFINE row == datasets[d]
            rows == Stored(row.cases)
<1>1. row \in DatasetRow /\ Sound(row) /\ ToSet(row.cases) \subseteq StoredIds(cases)
  BY DEF DatasetsFit, Live
<1>2. ToSet(rows) = AsStored(ToSet(row.cases))
  BY <1>1, StoredRows DEF DatasetsFit, DatasetRow
<1>3. \A x \in row.hash : cases[x.id] = RowOf(x)
  BY DEF HashesFit
<1>. HIDE DEF row, rows
<1>4. \A x \in row.hash : CanonicalDump(x.id, cases[x.id]) = x
  <2>1. \A x \in row.hash : x \in Dump
    BY <1>1 DEF DatasetRow
  <2>2. \A x \in Dump : x = [id |-> x.id, body |-> x.body, exp |-> x.exp]
    BY DEF Dump
  <2>3. ASSUME NEW x \in row.hash PROVE CanonicalDump(x.id, cases[x.id]) = x
    <3>1. cases[x.id] = [body |-> x.body, exp |-> x.exp]
      BY <1>3 DEF RowOf
    <3>2. x = [id |-> x.id, body |-> x.body, exp |-> x.exp]
      BY <2>1, <2>2
    <3>3. CanonicalDump(x.id, cases[x.id]) = [id |-> x.id, body |-> x.body, exp |-> x.exp]
      BY <3>1 DEF CanonicalDump
    <3>. QED  BY <3>2, <3>3
  <2>. QED  BY <2>3
<1>5. ASSUME NEW x \in row.hash PROVE x \in compute_manifest_hash(rows)
  <2>1. x.id \in ToSet(row.cases)
    BY <1>1 DEF Sound
  <2>2. [id |-> x.id, row |-> cases[x.id]] \in ToSet(rows)
    BY <1>2, <2>1 DEF AsStored
  <2>. QED  BY <1>4, <2>2 DEF compute_manifest_hash
<1>6. ASSUME NEW q \in ToSet(rows) PROVE CanonicalDump(q.id, q.row) \in row.hash
  <2>1. q.id \in ToSet(row.cases) /\ q.row = cases[q.id]
    BY <1>2 DEF AsStored
  <2>2. PICK x \in row.hash : x.id = q.id
    BY <1>1, <2>1 DEF Sound
  <2>. QED  BY <1>4, <2>1, <2>2
<1>7. row.hash = compute_manifest_hash(rows)
  BY <1>5, <1>6 DEF compute_manifest_hash
<1>. QED  BY <1>7 DEF row, rows

-----------------------------------------------------------------------------
(* What holds in every reachable state.                                      *)

(* The rows and the plans of the handlers fit each other.                     *)
THEOREM PlansAlwaysFit == ASSUME DatasetConstants PROVE Spec => []DatasetsFit
<1>1. Init => DatasetsFit
  BY DatasetsFitInit
<1>2. DatasetsFit /\ [Next]_vars => DatasetsFit'
  BY DatasetsFitNext
<1>. QED  BY <1>1, <1>2, PTL DEF Spec

(* Whatever handlers overlap, raise or die, a dataset never names a case that is   *)
(* not stored: put_entity writes the cases of a request before their manifest.     *)
THEOREM RefsAlwaysResolve == ASSUME DatasetConstants PROVE Spec => []RefsResolve
<1>1. DatasetsFit => RefsResolve
  BY DEF DatasetsFit, RefsResolve, StoredIds
<1>. QED  BY <1>1, PlansAlwaysFit, PTL

(* Nor does a row ever mix the manifest of one request with the cases of another.  *)
THEOREM ManifestsNameTheirRefs == ASSUME DatasetConstants PROVE Spec => []ManifestNamesTheRefs
<1>1. DatasetsFit => ManifestNamesTheRefs
  BY DEF DatasetsFit, Sound, ManifestNamesTheRefs
<1>. QED  BY <1>1, PlansAlwaysFit, PTL

LEMMA AppendsAlwaysFit == ASSUME DatasetConstants, OneRequest PROVE Spec => [](DatasetsFit /\ AppendsFit)
<1>1. Init => DatasetsFit /\ AppendsFit
  BY DatasetsFitInit, AppendsFitInit
<1>2. DatasetsFit /\ AppendsFit /\ [Next]_vars => (DatasetsFit /\ AppendsFit)'
  BY DatasetsFitNext, AppendsFitNext
<1>. QED  BY <1>1, <1>2, PTL DEF Spec

(* One request at a time, append_case_to_dataset never loses what it has answered. *)
THEOREM AppendsStay == ASSUME DatasetConstants, OneRequest PROVE Spec => []AppendedIsThere
<1>1. AppendsFit => AppendedIsThere
  BY DEF AppendsFit, InCases, AppendedIsThere
<1>. QED  BY <1>1, AppendsAlwaysFit, PTL

(* ... and a frozen regression dataset keeps its cases: appends go to a new one.   *)
THEOREM FrozenStays == ASSUME DatasetConstants, OneRequest PROVE Spec => [][FrozenStaysAsIs]_vars
<1>1. DatasetsFit /\ AppendsFit /\ [Next]_vars => FrozenStaysAsIs
  BY AppendsFitNext
<1>. QED  BY <1>1, AppendsAlwaysFit, PTL DEF Spec

(* Without launches that stamp the cases, the stored hash tells what is stored.    *)
THEOREM ManifestsAreCurrent == ASSUME DatasetConstants, NoStamps PROVE Spec => []ManifestIsCurrent
<1>0. OneRequest
  BY DEF NoStamps, OneRequest
<1>1. Init => HashesFit
  BY HashesFitInit
<1>2. DatasetsFit /\ AppendsFit /\ HashesFit /\ [Next]_vars => HashesFit'
  BY HashesFitNext
<1>3. DatasetsFit /\ HashesFit => ManifestIsCurrent
  BY TrueManifests
<1>4. Spec => [](DatasetsFit /\ AppendsFit)
  BY <1>0, AppendsAlwaysFit
<1>. QED  BY <1>1, <1>2, <1>3, <1>4, PTL DEF Spec

-----------------------------------------------------------------------------
(* All of it together, for any clients, cases, datasets and requests.        *)
DatasetsSound ==
    /\ DatasetsFit
    /\ OneRequest => AppendsFit
    /\ NoStamps => HashesFit

LEMMA NoStampsInTurn == NoStamps => OneRequest
BY DEF NoStamps, OneRequest

LEMMA SoundInit == ASSUME DatasetConstants, Init PROVE DatasetsSound
BY DatasetsFitInit, AppendsFitInit, HashesFitInit DEF DatasetsSound

LEMMA SoundNext == ASSUME DatasetConstants, DatasetsSound, [Next]_vars PROVE DatasetsSound' /\ FrozenForGood
<1>1. DatasetsFit'
  BY DatasetsFitNext DEF DatasetsSound
<1>2. OneRequest => AppendsFit' /\ FrozenStaysAsIs
  BY AppendsFitNext DEF DatasetsSound
<1>3. NoStamps => HashesFit'
  BY NoStampsInTurn, HashesFitNext DEF DatasetsSound
<1>4. FrozenForGood
  BY <1>2 DEF FrozenForGood, OneRequest
<1>. QED  BY <1>1, <1>2, <1>3, <1>4 DEF DatasetsSound

LEMMA SoundGives == ASSUME DatasetsSound PROVE DatasetsAreTrue
<1>1. RefsResolve /\ ManifestNamesTheRefs
  BY DEF DatasetsSound, DatasetsFit, Sound, RefsResolve, ManifestNamesTheRefs, StoredIds
<1>2. OneRequest => AppendedIsThere
  BY DEF DatasetsSound, AppendsFit, InCases, AppendedIsThere
<1>3. NoStamps => ManifestIsCurrent
  BY TrueManifests DEF DatasetsSound
<1>. QED  BY <1>1, <1>2, <1>3 DEF DatasetsAreTrue, OneRequest, NoStamps

(* The datasets' promises together: dataset_writer and the launches keep refs, manifests, appends
   and frozen datasets, under the conditions that DatasetsStayTrue names. *)
THEOREM DatasetsTrueForever == ASSUME DatasetConstants PROVE Spec => DatasetsStayTrue
<1>1. DatasetsSound /\ [Next]_vars => DatasetsSound' /\ FrozenForGood
  BY SoundNext
<1>2. Init => DatasetsSound
  BY SoundInit
<1>3. DatasetsSound => DatasetsAreTrue
  BY SoundGives
<1>. QED  BY <1>1, <1>2, <1>3, PTL DEF Spec, DatasetsStayTrue
=============================================================================
