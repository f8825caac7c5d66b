-------------------------- MODULE Inventory_proofs --------------------------
(***************************************************************************)
(* Proofs about Inventory, for any workers, names and number of rows.      *)
(* InventoryInv is the inductive invariant for any number of workers; with *)
(* a single one UniqueInv is inductive as well.                            *)
(***************************************************************************)
EXTENDS Inventory, TLAPS

(* Every asset that somebody has or holds, in one version or several.      *)
Known == assets \cup UNION {dirty[w] : w \in Workers}

(* Identifiers are fresh, and versions of one asset are of one thing.      *)
VersionsAgree ==
  /\ \A a \in Known : a.id < serial
  /\ \A a, b \in Known : a.id = b.id => a.type = b.type /\ a.value = b.value

(* A finding of an open session has its asset there or in the database.    *)
RaisedHaveAssets ==
  \A w \in Workers : \A f \in raised[w] :
    \E a \in assets \cup dirty[w] : a.id = f.asset /\ a.value = f.value

(* What waits for its announcement is a subdomain that the session holds.  *)
CreatedInv ==
  \A w \in Workers :
    /\ created[w] \subseteq {a \in dirty[w] : a.type = "subdomain"}
    /\ \A a, b \in created[w] : a = b
    /\ created[w] # {} => pass[w] # "none"

InventoryInv ==
  TypeOK /\ VersionsAgree /\ RaisedHaveAssets /\ FindingsHaveAssets /\ CreatedInv

-----------------------------------------------------------------------------
(* Facts about the operators.                                              *)

(* A query returns assets of the type and value it asks for.               *)
LEMMA LookupFinds ==
  ASSUME NEW w \in Workers, NEW type, NEW name, NEW a \in Lookup(w, type, name)
  PROVE  a \in assets \cup dirty[w] /\ a \in Known /\ a.type = type /\ a.value = name
  BY DEF Lookup, Merge, Known

(* get_or_create_asset returns an asset of the type and value it is asked  *)
(* for, which is known already or has a fresh identifier.                  *)
LEMMA GetOrCreateFinds ==
  ASSUME TypeOK, NEW w \in Workers, NEW name \in Names,
         NEW type \in {"subdomain", "tls_endpoint", "bucket"},
         NEW a \in GetOrCreate(w, type, name), serial <= MaxSerial
  PROVE  /\ a \in Asset
         /\ a.type = type /\ a.value = name
         /\ a \in Known \/ a.id = serial
<1>1. CASE Lookup(w, type, name) = {}
  <2>1. a = NewAsset(type, name)
    BY <1>1 DEF GetOrCreate
  <2>2. serial \in 0..MaxSerial
    BY DEF TypeOK
  <2> QED BY <2>1, <2>2 DEF NewAsset, Asset, AssetTypes
<1>2. CASE Lookup(w, type, name) # {}
  <2>1. a \in Lookup(w, type, name)
    BY <1>2 DEF GetOrCreate
  <2>2. a \in assets \cup dirty[w] /\ a \in Known /\ a.type = type /\ a.value = name
    BY <2>1, LookupFinds
  <2>3. assets \subseteq Asset /\ dirty[w] \subseteq Asset
    BY DEF TypeOK
  <2> QED BY <2>2, <2>3
<1> QED BY <1>1, <1>2

(* Saving an asset that is known, or that is fresh, keeps the invariant,   *)
(* with a finding about that asset or without one.                         *)
LEMMA SaveKeepsInv ==
  ASSUME InventoryInv, NEW w \in Workers, NEW a \in Asset,
         Save(w, a), TakeSerials,
         (\E b \in Known : b.id = a.id /\ b.type = a.type /\ b.value = a.value)
           \/ a.id = serial,
         UNCHANGED <<assets, findings>>,
         raised' = raised \/
           \E kind \in {"new_subdomain", "tls", "bucket_listing"} : AddFinding(w, kind, a)
  PROVE  /\ dirty' \in [Workers -> SUBSET Asset] /\ raised' \in [Workers -> SUBSET Finding]
         /\ serial' \in 0..MaxSerial
         /\ VersionsAgree' /\ RaisedHaveAssets' /\ FindingsHaveAssets'
<1> USE InventoryAssumption
<1>1. /\ dirty \in [Workers -> SUBSET Asset] /\ raised \in [Workers -> SUBSET Finding]
      /\ serial \in 0..MaxSerial /\ MaxSerial \in Nat
  BY DEF InventoryInv, TypeOK
<1>2. /\ serial' = serial + 2 /\ serial' \in 0..MaxSerial
  BY <1>1 DEF TakeSerials
<1>3. dirty' = [dirty EXCEPT ![w] = {a} \cup {x \in dirty[w] : x.id # a.id}]
  BY DEF Save, Merge
<1>4. dirty' \in [Workers -> SUBSET Asset]
  BY <1>1, <1>3
<1>5. /\ dirty'[w] = {a} \cup {x \in dirty[w] : x.id # a.id}
      /\ \A v \in Workers \ {w} : dirty'[v] = dirty[v]
  BY <1>1, <1>3
<1>6. \A x \in Known' : x \in Known \/ x = a
  BY <1>5 DEF Known
<1>7. VersionsAgree'
  <2>1. a.id \in Nat /\ \A x \in Known : x.id \in Nat
    BY <1>1 DEF Asset, Known, InventoryInv, TypeOK
  <2>2. a.id <= serial
    BY <1>1, <2>1 DEF InventoryInv, VersionsAgree
  <2>3. \A x \in Known' : x.id < serial'
    BY <1>1, <1>2, <1>6, <2>1, <2>2 DEF InventoryInv, VersionsAgree
  <2>4. \A x \in Known : x.id = a.id => x.type = a.type /\ x.value = a.value
    BY <1>1, <2>1 DEF InventoryInv, VersionsAgree
  <2>5. \A x, y \in Known' : x.id = y.id => x.type = y.type /\ x.value = y.value
    BY <1>6, <2>4 DEF InventoryInv, VersionsAgree
  <2> QED BY <2>3, <2>5 DEF VersionsAgree
<1>8. raised' \in [Workers -> SUBSET Finding]
  <2>1. CASE raised' = raised
    BY <2>1, <1>1
  <2>2. ASSUME NEW kind \in {"new_subdomain", "tls", "bucket_listing"}, AddFinding(w, kind, a)
        PROVE  raised' \in [Workers -> SUBSET Finding]
    <3>1. [id |-> serial + 1, kind |-> kind, asset |-> a.id, value |-> a.value] \in Finding
      BY <1>1, <1>2 DEF Finding, Asset
    <3> QED BY <1>1, <2>2, <3>1 DEF AddFinding, Raise
  <2> QED BY <2>1, <2>2
<1>9. RaisedHaveAssets'
  <2> SUFFICES ASSUME NEW v \in Workers, NEW f \in raised'[v]
               PROVE  \E x \in assets \cup dirty'[v] : x.id = f.asset /\ x.value = f.value
    BY DEF RaisedHaveAssets
  <2>1. CASE f \in raised[v]
    <3>1. PICK x \in assets \cup dirty[v] : x.id = f.asset /\ x.value = f.value
      BY <2>1 DEF InventoryInv, RaisedHaveAssets
    <3>2. CASE x \in assets \cup dirty'[v]
      BY <3>1, <3>2
    <3>3. CASE x \notin assets \cup dirty'[v]
      <4>1. v = w /\ x.id = a.id /\ x \in Known /\ a \in dirty'[v]
        BY <1>5, <3>1, <3>3 DEF Known
      <4>2. a \in Known'
        BY <4>1 DEF Known
      <4>3. x.value = a.value
        <5>1. x.id < serial /\ x.id \in Nat
          BY <4>1, <1>1 DEF InventoryInv, VersionsAgree, Known, Asset, TypeOK
        <5>2. PICK b \in Known : b.id = a.id /\ b.type = a.type /\ b.value = a.value
          BY <4>1, <5>1, <1>1
        <5> QED BY <4>1, <5>2 DEF InventoryInv, VersionsAgree
      <4> QED BY <3>1, <4>1, <4>3
    <3> QED BY <3>2, <3>3
  <2>2. CASE f \notin raised[v]
    <3>1. PICK kind : AddFinding(w, kind, a)
      BY <2>2
    <3>2. v = w /\ f.asset = a.id /\ f.value = a.value
      BY <1>1, <2>2, <3>1 DEF AddFinding, Raise
    <3> QED BY <3>2, <1>5
  <2> QED BY <2>1, <2>2
<1>10. FindingsHaveAssets'
  BY DEF InventoryInv, FindingsHaveAssets
<1> QED BY <1>2, <1>4, <1>7, <1>8, <1>9, <1>10

-----------------------------------------------------------------------------
(* The invariant.                                                          *)

(* Steps that record nothing keep it.                                      *)
LEMMA QuietStep ==
  ASSUME InventoryInv, UNCHANGED <<assets, findings, dirty, raised, created, serial>>,
         open' \in SUBSET Workers,
         pass' \in [Workers -> PassTypes \cup {"none"}],
         todo' \in [Workers -> SUBSET Names],
         \A w \in Workers : created[w] # {} => pass'[w] = pass[w]
  PROVE  InventoryInv'
  BY DEF InventoryInv, TypeOK, VersionsAgree, Known, RaisedHaveAssets, FindingsHaveAssets,
         CreatedInv

(* The passes go on to the next name in a well-typed way.                  *)
LEMMA TakeTypes ==
  ASSUME InventoryInv, NEW w \in Workers, NEW p, NEW name \in Names, Take(w, p, name)
  PROVE  /\ open' \in SUBSET Workers
         /\ pass' \in [Workers -> PassTypes \cup {"none"}] /\ pass' = pass
         /\ todo' \in [Workers -> SUBSET Names]
         /\ pass[w] = p /\ created[w] = {}
         /\ UNCHANGED <<assets, findings>>
  BY DEF InventoryInv, TypeOK, Take

(* Recording an asset keeps the invariant; a subdomain is to be announced. *)
LEMMA RecordKeepsInv ==
  ASSUME InventoryInv, NEW w \in Workers, NEW p, NEW name \in Names, Take(w, p, name),
         p # "none",
         NEW a \in Asset, Save(w, a), TakeSerials,
         (\E b \in Known : b.id = a.id /\ b.type = a.type /\ b.value = a.value)
           \/ a.id = serial,
         raised' = raised \/
           \E kind \in {"new_subdomain", "tls", "bucket_listing"} : AddFinding(w, kind, a),
         \/ created' = created
         \/ a.type = "subdomain" /\ created' = [created EXCEPT ![w] = {a}]
  PROVE  InventoryInv'
<1>1. /\ open' \in SUBSET Workers
      /\ pass' \in [Workers -> PassTypes \cup {"none"}] /\ pass' = pass
      /\ todo' \in [Workers -> SUBSET Names]
      /\ pass[w] = p /\ created[w] = {}
      /\ UNCHANGED <<assets, findings>>
  BY TakeTypes
<1>2. /\ dirty' \in [Workers -> SUBSET Asset] /\ raised' \in [Workers -> SUBSET Finding]
      /\ serial' \in 0..MaxSerial
      /\ VersionsAgree' /\ RaisedHaveAssets' /\ FindingsHaveAssets'
  BY <1>1, SaveKeepsInv
<1>3. /\ created \in [Workers -> SUBSET Asset] /\ created' \in [Workers -> SUBSET Asset]
      /\ \A v \in Workers \ {w} : created'[v] = created[v]
      /\ created'[w] = {} \/ (a.type = "subdomain" /\ created'[w] = {a})
  BY <1>1 DEF InventoryInv, TypeOK
<1>4. TypeOK'
  BY <1>1, <1>2, <1>3 DEF InventoryInv, TypeOK
<1>5. a \in dirty'[w] /\ \A v \in Workers \ {w} : dirty'[v] = dirty[v]
  BY DEF InventoryInv, TypeOK, Save, Merge
<1>6. CreatedInv'
  BY <1>1, <1>3, <1>5 DEF InventoryInv, CreatedInv
<1> QED BY <1>2, <1>4, <1>6 DEF InventoryInv

(* Announcing a subdomain keeps the invariant: whichever asset the second  *)
(* query returns is held by the session or committed.                      *)
LEMMA AnnounceKeepsInv ==
  ASSUME InventoryInv, NEW w \in Workers, AnnounceSubdomain(w)
  PROVE  InventoryInv'
<1>1. PICK own \in created[w] : \E a \in Lookup(w, "subdomain", own.value) :
        Raise(w, own.id + 1, "new_subdomain", a)
  BY DEF AnnounceSubdomain
<1>2. PICK a \in Lookup(w, "subdomain", own.value) : Raise(w, own.id + 1, "new_subdomain", a)
  BY <1>1
<1>3. a \in assets \cup dirty[w]
  BY <1>2, LookupFinds
<1> DEFINE f == [id |-> own.id + 1, kind |-> "new_subdomain", asset |-> a.id, value |-> a.value]
<1>4. f \in Finding
  <2>1. own.id \in Nat /\ own.id < serial /\ serial \in 0..MaxSerial /\ MaxSerial \in Nat
    BY InventoryAssumption DEF InventoryAssumption, InventoryInv, CreatedInv, VersionsAgree, Known, TypeOK, Asset
  <2>2. a.id \in 0..MaxSerial /\ a.value \in Names
    BY <1>3 DEF InventoryInv, TypeOK, Asset
  <2>3. own.id + 1 \in 0..MaxSerial
    BY <2>1
  <2> QED BY <2>2, <2>3 DEF Finding
<1>5. /\ raised' = [raised EXCEPT ![w] = @ \cup {f}] /\ f.asset = a.id /\ f.value = a.value
  BY <1>2 DEF Raise
<1> HIDE DEF f
<1>6. /\ raised' \in [Workers -> SUBSET Finding] /\ raised'[w] = raised[w] \cup {f}
      /\ \A v \in Workers \ {w} : raised'[v] = raised[v]
  BY <1>4, <1>5 DEF InventoryInv, TypeOK
<1>7. UNCHANGED <<assets, findings, open, dirty, pass, todo, serial>>
      /\ created' = [created EXCEPT ![w] = {}]
  BY DEF AnnounceSubdomain
<1>8. TypeOK'
  BY <1>6, <1>7 DEF InventoryInv, TypeOK
<1>9. VersionsAgree' /\ FindingsHaveAssets'
  BY <1>7 DEF InventoryInv, VersionsAgree, Known, FindingsHaveAssets
<1>10. RaisedHaveAssets'
  BY <1>3, <1>5, <1>6, <1>7 DEF InventoryInv, RaisedHaveAssets
<1>11. CreatedInv'
  BY <1>7 DEF InventoryInv, TypeOK, CreatedInv
<1> QED BY <1>8, <1>9, <1>10, <1>11 DEF InventoryInv

(* Identifiers remain when a pass records something.                       *)
LEMMA SerialLeft ==
  ASSUME InventoryInv, TakeSerials
  PROVE  serial \in 0..MaxSerial /\ serial <= MaxSerial
  BY DEF InventoryInv, TypeOK

(* Closing a session forgets what it holds.                                *)
LEMMA CloseEffect ==
  ASSUME InventoryInv, NEW w \in Workers, Close(w)
  PROVE  /\ dirty' \in [Workers -> SUBSET Asset] /\ raised' \in [Workers -> SUBSET Finding]
         /\ dirty'[w] = {} /\ raised'[w] = {}
         /\ \A v \in Workers \ {w} : dirty'[v] = dirty[v] /\ raised'[v] = raised[v]
         /\ open' \in SUBSET Workers
         /\ pass' \in [Workers -> PassTypes \cup {"none"}]
         /\ todo' \in [Workers -> SUBSET Names]
         /\ created' \in [Workers -> SUBSET Asset] /\ created'[w] = {}
         /\ \A v \in Workers \ {w} : created'[v] = created[v] /\ pass'[v] = pass[v]
         /\ serial' = serial
  BY DEF InventoryInv, TypeOK, Close

(* What a commit leaves of the committed assets: each of them, or a newer  *)
(* version of it.                                                          *)
LEMMA MergeKeeps ==
  ASSUME NEW A, NEW B, NEW a \in A
  PROVE  \E b \in Merge(A, B) : b.id = a.id /\ (b = a \/ b \in B)
  BY DEF Merge

(* The commit of a drain keeps the invariant.                              *)
LEMMA CommitKeepsInv ==
  ASSUME InventoryInv, NEW w \in Workers, CommitDrain(w)
  PROVE  InventoryInv'
<1> USE DEF CommitDrain
<1>1. /\ dirty' \in [Workers -> SUBSET Asset] /\ raised' \in [Workers -> SUBSET Finding]
      /\ dirty'[w] = {} /\ raised'[w] = {}
      /\ \A v \in Workers \ {w} : dirty'[v] = dirty[v] /\ raised'[v] = raised[v]
      /\ open' \in SUBSET Workers
      /\ pass' \in [Workers -> PassTypes \cup {"none"}]
      /\ todo' \in [Workers -> SUBSET Names]
      /\ created' \in [Workers -> SUBSET Asset] /\ created'[w] = {}
      /\ \A v \in Workers \ {w} : created'[v] = created[v] /\ pass'[v] = pass[v]
      /\ serial' = serial
  BY CloseEffect
<1>2. assets \subseteq Asset /\ findings \subseteq Finding /\ serial \in 0..MaxSerial
      /\ dirty[w] \subseteq Asset /\ raised[w] \subseteq Finding
  BY DEF InventoryInv, TypeOK
<1>3. assets' \subseteq Asset /\ findings' \subseteq Finding /\ assets' \subseteq assets \cup dirty[w]
  BY <1>2 DEF Merge
<1>4. TypeOK'
  BY <1>1, <1>2, <1>3 DEF TypeOK
<1>5. Known' \subseteq Known
  BY <1>1, <1>3 DEF Known
<1>6. VersionsAgree'
  BY <1>1, <1>5 DEF InventoryInv, VersionsAgree
<1>7. \A a \in assets \cup dirty[w] : \E b \in assets' : b.id = a.id /\ b.value = a.value
  <2> SUFFICES ASSUME NEW a \in assets \cup dirty[w]
               PROVE  \E b \in assets' : b.id = a.id /\ b.value = a.value
    OBVIOUS
  <2>1. CASE a \in dirty[w]
    BY <2>1 DEF Merge
  <2>2. CASE a \in assets
    <3>1. PICK b \in assets' : b.id = a.id /\ (b = a \/ b \in dirty[w])
      BY <2>2, MergeKeeps
    <3>2. a \in Known /\ b \in Known
      BY <2>2, <3>1 DEF Known
    <3> QED BY <3>1, <3>2 DEF InventoryInv, VersionsAgree
  <2> QED BY <2>1, <2>2
<1>8. RaisedHaveAssets'
  <2> SUFFICES ASSUME NEW v \in Workers, NEW f \in raised'[v]
               PROVE  \E x \in assets' \cup dirty'[v] : x.id = f.asset /\ x.value = f.value
    BY DEF RaisedHaveAssets
  <2>1. v # w /\ f \in raised[v] /\ dirty'[v] = dirty[v]
    BY <1>1
  <2>2. PICK x \in assets \cup dirty[v] : x.id = f.asset /\ x.value = f.value
    BY <2>1 DEF InventoryInv, RaisedHaveAssets
  <2> QED BY <1>7, <2>1, <2>2
<1>9. FindingsHaveAssets'
  <2> SUFFICES ASSUME NEW f \in findings'
               PROVE  \E a \in assets' : a.id = f.asset /\ a.value = f.value
    BY DEF FindingsHaveAssets
  <2>1. PICK a \in assets \cup dirty[w] : a.id = f.asset /\ a.value = f.value
    BY DEF InventoryInv, RaisedHaveAssets, FindingsHaveAssets
  <2> QED BY <1>7, <2>1
<1>10. CreatedInv'
  BY <1>1 DEF InventoryInv, CreatedInv
<1> QED BY <1>4, <1>6, <1>8, <1>9, <1>10 DEF InventoryInv

(* The rollback of a drain keeps the invariant.                            *)
LEMMA RollbackKeepsInv ==
  ASSUME InventoryInv, NEW w \in Workers, RollbackDrain(w)
  PROVE  InventoryInv'
<1>1. /\ dirty' \in [Workers -> SUBSET Asset] /\ raised' \in [Workers -> SUBSET Finding]
      /\ dirty'[w] = {} /\ raised'[w] = {}
      /\ \A v \in Workers \ {w} : dirty'[v] = dirty[v] /\ raised'[v] = raised[v]
      /\ open' \in SUBSET Workers
      /\ pass' \in [Workers -> PassTypes \cup {"none"}]
      /\ todo' \in [Workers -> SUBSET Names]
      /\ created' \in [Workers -> SUBSET Asset] /\ created'[w] = {}
      /\ \A v \in Workers \ {w} : created'[v] = created[v] /\ pass'[v] = pass[v]
      /\ serial' = serial /\ UNCHANGED <<assets, findings>>
  BY CloseEffect DEF RollbackDrain
<1>2. TypeOK'
  BY <1>1 DEF InventoryInv, TypeOK
<1>3. Known' \subseteq Known
  BY <1>1 DEF Known
<1>4. VersionsAgree'
  BY <1>1, <1>3 DEF InventoryInv, VersionsAgree
<1>5. RaisedHaveAssets'
  <2> SUFFICES ASSUME NEW v \in Workers, NEW f \in raised'[v]
               PROVE  \E x \in assets' \cup dirty'[v] : x.id = f.asset /\ x.value = f.value
    BY DEF RaisedHaveAssets
  <2>1. v # w /\ f \in raised[v] /\ dirty'[v] = dirty[v]
    BY <1>1
  <2> QED BY <1>1, <2>1 DEF InventoryInv, RaisedHaveAssets
<1>6. FindingsHaveAssets'
  BY <1>1 DEF InventoryInv, FindingsHaveAssets
<1>7. CreatedInv'
  BY <1>1 DEF InventoryInv, CreatedInv
<1> QED BY <1>2, <1>4, <1>5, <1>6, <1>7 DEF InventoryInv

(* InventoryInv holds of every reachable state.                            *)
THEOREM InventoryInvariant == Spec => []InventoryInv
<1> USE InventoryAssumption
<1>1. Init => InventoryInv
  BY DEF Init, InventoryInv, TypeOK, VersionsAgree, Known, RaisedHaveAssets,
         FindingsHaveAssets, PassTypes, CreatedInv
<1>2. InventoryInv /\ [Next]_vars => InventoryInv'
  <2> SUFFICES ASSUME InventoryInv, [Next]_vars PROVE InventoryInv'
    OBVIOUS
  <2>1. ASSUME NEW w \in Workers, BeginDrain(w) PROVE InventoryInv'
    BY <2>1, QuietStep DEF BeginDrain, InventoryInv, TypeOK
  <2>2. ASSUME NEW w \in Workers, NEW p \in PassTypes, BeginPass(w, p) PROVE InventoryInv'
    BY <2>2, QuietStep DEF BeginPass, InventoryInv, TypeOK, CreatedInv
  <2>3. ASSUME NEW w \in Workers, NEW name \in Names, PassOver(w, name) PROVE InventoryInv'
    <3>1. PICK p \in PassTypes : Done(w, p, name)
      BY <2>3 DEF PassOver
    <3> QED BY <2>3, <3>1, TakeTypes, QuietStep DEF PassOver, Done
  <2>4. ASSUME NEW w \in Workers, NEW name \in Names, CreateSubdomain(w, name)
        PROVE  InventoryInv'
    <3> DEFINE a == NewAsset("subdomain", name)
    <3>1. a \in Asset /\ a.id = serial /\ a.type = "subdomain"
      BY <2>4, SerialLeft DEF CreateSubdomain, NewAsset, Asset, AssetTypes
    <3>2. /\ Take(w, "subdomain", name) /\ TakeSerials /\ Save(w, a)
          /\ created' = [created EXCEPT ![w] = {a}] /\ raised' = raised
      BY <2>4 DEF CreateSubdomain
    <3> HIDE DEF a
    <3> QED BY <3>1, <3>2, RecordKeepsInv
  <2>5. ASSUME NEW w \in Workers, NEW name \in Names, RecordCertificate(w, name)
        PROVE  InventoryInv'
    <3>1. PICK a \in GetOrCreate(w, "tls_endpoint", name) : Save(w, a) /\ AddFinding(w, "tls", a)
      BY <2>5 DEF RecordCertificate
    <3>2. Take(w, "tls", name) /\ TakeSerials /\ created' = created
      BY <2>5 DEF RecordCertificate, Done
    <3>3. a \in Asset /\ (a \in Known \/ a.id = serial)
      BY <3>1, <3>2, SerialLeft, GetOrCreateFinds DEF InventoryInv
    <3> QED BY <3>1, <3>2, <3>3, RecordKeepsInv
  <2>6. ASSUME NEW w \in Workers, NEW name \in Names, RecordListing(w, name)
        PROVE  InventoryInv'
    <3>1. PICK a \in GetOrCreate(w, "bucket", name) :
            Save(w, [a EXCEPT !.probe = "listing"]) /\ AddFinding(w, "bucket_listing", a)
      BY <2>6 DEF RecordListing
    <3>2. Take(w, "bucket", name) /\ TakeSerials /\ created' = created
      BY <2>6 DEF RecordListing, Done
    <3>3. a \in Asset /\ (a \in Known \/ a.id = serial)
      BY <3>1, <3>2, SerialLeft, GetOrCreateFinds DEF InventoryInv
    <3> DEFINE b == [a EXCEPT !.probe = "listing"]
    <3>4. b \in Asset /\ b.id = a.id /\ b.type = a.type /\ b.value = a.value
      BY <3>3 DEF Asset
    <3>5. AddFinding(w, "bucket_listing", b)
      BY <3>1, <3>4 DEF AddFinding, Raise
    <3> HIDE DEF b
    <3> QED BY <3>1, <3>2, <3>3, <3>4, <3>5, RecordKeepsInv DEF b
  <2>7. ASSUME NEW w \in Workers, NEW name \in Names, RecordDenied(w, name)
        PROVE  InventoryInv'
    <3>1. PICK a \in GetOrCreate(w, "bucket", name) :
            Save(w, [a EXCEPT !.note = "without_public_listing", !.probe = "denied"])
      BY <2>7 DEF RecordDenied
    <3>2. Take(w, "bucket", name) /\ TakeSerials /\ raised' = raised /\ created' = created
      BY <2>7 DEF RecordDenied, Done
    <3>3. a \in Asset /\ (a \in Known \/ a.id = serial)
      BY <3>1, <3>2, SerialLeft, GetOrCreateFinds DEF InventoryInv
    <3> DEFINE b == [a EXCEPT !.note = "without_public_listing", !.probe = "denied"]
    <3>4. b \in Asset /\ b.id = a.id /\ b.type = a.type /\ b.value = a.value
      BY <3>3 DEF Asset
    <3>5. Save(w, b)
      BY <3>1
    <3> HIDE DEF b
    <3> QED BY <3>2, <3>3, <3>4, <3>5, RecordKeepsInv
  <2>8. ASSUME NEW w \in Workers, EndPass(w) PROVE InventoryInv'
    BY <2>8, QuietStep DEF EndPass, InventoryInv, TypeOK
  <2>9. ASSUME NEW w \in Workers, CommitDrain(w) \/ RollbackDrain(w) PROVE InventoryInv'
    BY <2>9, CommitKeepsInv, RollbackKeepsInv
  <2>10. CASE UNCHANGED vars
    BY <2>10, QuietStep DEF vars, sessions, InventoryInv, TypeOK
  <2>11. ASSUME NEW w \in Workers, AnnounceSubdomain(w) PROVE InventoryInv'
    BY <2>11, AnnounceKeepsInv
  <2> QED
    BY <2>1, <2>2, <2>3, <2>4, <2>5, <2>6, <2>7, <2>8, <2>9, <2>10, <2>11 DEF Next
<1> QED BY <1>1, <1>2, PTL DEF Spec

(* Every variable has its type.                                            *)
THEOREM TypeCorrect == Spec => []TypeOK
<1>1. InventoryInv => TypeOK
  BY DEF InventoryInv
<1> QED BY <1>1, InventoryInvariant, PTL

(* However many workers race, raise and fail: a finding that users can see *)
(* has its asset in the inventory.                                         *)
THEOREM NoOrphanFindings == Spec => []FindingsHaveAssets
<1>1. InventoryInv => FindingsHaveAssets
  BY DEF InventoryInv
<1> QED BY <1>1, InventoryInvariant, PTL

-----------------------------------------------------------------------------
(* A single worker.                                                        *)

UniqueIn(A) == \A a, b \in A : a.type = b.type /\ a.value = b.value => a = b

(* The database, and what the one session makes of it, have no asset twice.*)
UniqueInv ==
  /\ UniqueIn(assets)
  /\ \A w \in Workers : UniqueIn(Merge(assets, dirty[w]))

(* Saving what get_or_create_asset has returned, changed or not, keeps the *)
(* assets of the session unique.                                           *)
LEMMA SaveKeepsUnique ==
  ASSUME UniqueInv, InventoryInv, NEW w, Workers = {w}, NEW type, NEW name,
         NEW a, NEW b \in GetOrCreate(w, type, name),
         a.id = b.id /\ a.type = b.type /\ a.value = b.value,
         Save(w, a), UNCHANGED assets
  PROVE  UniqueInv'
<1>1. dirty'[w] = Merge(dirty[w], {a})
  BY DEF InventoryInv, TypeOK, Save
<1>2. b.type = type /\ b.value = name
  <2>1. CASE Lookup(w, type, name) = {}
    BY <2>1 DEF GetOrCreate, NewAsset
  <2>2. CASE Lookup(w, type, name) # {}
    BY <2>2 DEF GetOrCreate, Lookup
  <2> QED BY <2>1, <2>2
<1>3. \A x \in Merge(assets, dirty[w]) : x.type = type /\ x.value = name => x = b
  <2>1. CASE Lookup(w, type, name) = {}
    BY <2>1 DEF Lookup
  <2>2. CASE Lookup(w, type, name) # {}
    BY <2>2, <1>2 DEF GetOrCreate, Lookup, UniqueInv, UniqueIn
  <2> QED BY <2>1, <2>2
<1>4. \A x \in Merge(assets, dirty'[w]) :
        x = a \/ (x \in Merge(assets, dirty[w]) /\ x.id # a.id)
  BY <1>1 DEF Merge
<1>5. UniqueIn(Merge(assets, dirty'[w]))
  BY <1>2, <1>3, <1>4 DEF UniqueInv, UniqueIn
<1> QED BY <1>5 DEF UniqueInv

(* Steps that record nothing keep the assets unique.                       *)
LEMMA QuietUnique ==
  ASSUME UniqueInv, UNCHANGED <<assets, dirty>>
  PROVE  UniqueInv'
  BY DEF UniqueInv, UniqueIn, Merge

(* Without a session of its own a worker sees what is committed.           *)
LEMMA MergeNothing == \A A : Merge(A, {}) = A
  BY DEF Merge

(* With one worker, as create_scheduler has it in one process, no asset is *)
(* recorded twice, although no constraint of the schema says so.           *)
THEOREM SingleWorkerUnique ==
  ASSUME NEW w, Workers = {w}
  PROVE  Spec => []OneAssetPerValue
<1>1. Init => UniqueInv
  BY MergeNothing DEF Init, UniqueInv, UniqueIn
<1>2. UniqueInv /\ InventoryInv /\ [Next]_vars => UniqueInv'
  <2> SUFFICES ASSUME UniqueInv, InventoryInv, [Next]_vars PROVE UniqueInv'
    OBVIOUS
  <2>1. CASE UNCHANGED <<assets, dirty>>
    BY <2>1, QuietUnique
  <2>2. CASE \/ BeginDrain(w) \/ EndPass(w)
             \/ \E p \in PassTypes : BeginPass(w, p)
             \/ \E name \in Names : PassOver(w, name)
             \/ AnnounceSubdomain(w)
    BY <2>2, <2>1 DEF BeginDrain, BeginPass, PassOver, AnnounceSubdomain, EndPass, Done, Take
  <2>3. ASSUME NEW name \in Names, CreateSubdomain(w, name) PROVE UniqueInv'
    <3> DEFINE a == NewAsset("subdomain", name)
    <3>1. a \in GetOrCreate(w, "subdomain", name) /\ Save(w, a) /\ UNCHANGED assets
      BY <2>3 DEF CreateSubdomain, GetOrCreate, Take
    <3> HIDE DEF a
    <3> QED BY <3>1, SaveKeepsUnique
  <2>4. ASSUME NEW name \in Names, RecordCertificate(w, name) PROVE UniqueInv'
    <3>1. PICK a \in GetOrCreate(w, "tls_endpoint", name) : Save(w, a)
      BY <2>4 DEF RecordCertificate
    <3>2. UNCHANGED assets
      BY <2>4 DEF RecordCertificate, Done, Take
    <3> QED BY <3>1, <3>2, SaveKeepsUnique
  <2>5. ASSUME NEW name \in Names, RecordListing(w, name) \/ RecordDenied(w, name)
        PROVE  UniqueInv'
    <3>1. PICK b \in GetOrCreate(w, "bucket", name) :
            \/ Save(w, [b EXCEPT !.probe = "listing"])
            \/ Save(w, [b EXCEPT !.note = "without_public_listing", !.probe = "denied"])
      BY <2>5 DEF RecordListing, RecordDenied
    <3>2. UNCHANGED assets /\ TakeSerials
      BY <2>5 DEF RecordListing, RecordDenied, Done, Take
    <3>3. b \in Asset
      BY <3>2, SerialLeft, GetOrCreateFinds DEF InventoryInv
    <3>4. PICK a : /\ a.id = b.id /\ a.type = b.type /\ a.value = b.value
                   /\ Save(w, a)
      <4> DEFINE c == [b EXCEPT !.probe = "listing"]
                 d == [b EXCEPT !.note = "without_public_listing", !.probe = "denied"]
      <4>1. /\ c.id = b.id /\ c.type = b.type /\ c.value = b.value
            /\ d.id = b.id /\ d.type = b.type /\ d.value = b.value
        BY <3>3 DEF Asset
      <4> QED BY <3>1, <4>1
    <3> QED BY <3>2, <3>4, SaveKeepsUnique
  <2>6. CASE CommitDrain(w)
    <3>1. assets' = Merge(assets, dirty[w]) /\ dirty'[w] = {}
      BY <2>6, CloseEffect DEF CommitDrain
    <3> QED BY <3>1, MergeNothing DEF UniqueInv
  <2>7. CASE RollbackDrain(w)
    <3>1. assets' = assets /\ dirty'[w] = {}
      BY <2>7, CloseEffect DEF RollbackDrain
    <3> QED BY <3>1, MergeNothing DEF UniqueInv
  <2> QED
    BY <2>1, <2>2, <2>3, <2>4, <2>5, <2>6, <2>7 DEF Next, vars, sessions
<1>3. UniqueInv => OneAssetPerValue
  BY DEF UniqueInv, UniqueIn, OneAssetPerValue
<1> QED BY <1>1, <1>2, <1>3, InventoryInvariant, PTL DEF Spec
=============================================================================
