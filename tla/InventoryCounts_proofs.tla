----------------------- MODULE InventoryCounts_proofs -----------------------
(***************************************************************************)
(* Proofs about what the inventory counts, for any finite set of workers:  *)
(* how often an asset can be recorded, how often a subdomain is announced, *)
(* and that a bucket comes with the findings its probes call for.          *)
(***************************************************************************)
EXTENDS Inventory_proofs, FiniteSetTheorems, FunctionTheorems

Subdomains(A) == {a \in A : a.type = "subdomain"}
Announcements(F) == {f \in F : f.kind = "new_subdomain"}

(* One version of an asset in a place.                                     *)
OneVersion(A) == \A a, b \in A : a.id = b.id => a = b

(* Every subdomain has the announcement that its creation led to: they go  *)
(* in pairs, whichever asset the announcement names.                       *)
Paired(A, F) ==
  /\ \A a \in Subdomains(A) : \E f \in Announcements(F) : f.id = a.id + 1 /\ f.value = a.value
  /\ \A f \in Announcements(F) : \E a \in Subdomains(A) : f.id = a.id + 1 /\ f.value = a.value
  /\ \A f, g \in Announcements(F) : f.id = g.id => f = g

(* What a session has recorded and, if it is a subdomain, announced.       *)
Recorded(w) == dirty[w] \ created[w]

(* A subdomain of a session is its own until the commit.                   *)
PairInv ==
  /\ Paired(assets, findings)
  /\ \A w \in Workers :
       /\ Paired(Recorded(w), raised[w])
       /\ \A a \in Subdomains(dirty[w]) :
            /\ \A b \in Subdomains(assets) : a.id # b.id
            /\ \A v \in Workers \ {w} : \A b \in Subdomains(dirty[v]) : a.id # b.id

(* The buckets of A have the findings F that their probes call for.        *)
Listed(A, F) ==
  \A a \in A :
    a.type = "bucket" =>
      /\ a.probe = "listing" => \E f \in F : f.kind = "bucket_listing" /\ f.asset = a.id
      /\ a.note = "none" => a.probe = "listing"

ListInv ==
  /\ Listed(assets, findings)
  /\ \A w \in Workers : Listed(dirty[w], findings \cup raised[w])

(* The assets of a type and value that are committed, those that only the  *)
(* session of w has, and the workers whose sessions have some.             *)
Ids(A, type, name) == {a.id : a \in {b \in A : b.type = type /\ b.value = name}}
Fresh(w, type, name) == Ids(dirty[w], type, name) \ Ids(assets, type, name)
Holders(type, name) == {w \in Workers : Fresh(w, type, name) # {}}

(* A session gets a fresh asset only while none is committed, so workers   *)
(* that have one and assets that are committed add up to the workers.      *)
CopyInv ==
  \A type \in AssetTypes, name \in Names :
    /\ \A w \in Workers : \A i, j \in Fresh(w, type, name) : i = j
    /\ Cardinality(Ids(assets, type, name)) + Cardinality(Holders(type, name))
         <= Cardinality(Workers)

(* What an open session will enter is fit to be entered at any moment.     *)
EntryInv ==
  \A w \in Workers :
    /\ Public!Complete(Recorded(w), raised[w], assets)
    /\ Public!OnceEach(dirty[w], raised[w])

VersionInv == OneVersion(assets) /\ \A w \in Workers : OneVersion(dirty[w])

CountInv == InventoryInv /\ VersionInv /\ PairInv /\ ListInv /\ CopyInv /\ EntryInv

-----------------------------------------------------------------------------
(* The steps that record something.                                        *)

(* The session of w gets a as its version of an asset.                     *)
Holds(w, a) ==
  /\ dirty'[w] = {a} \cup {x \in dirty[w] : x.id # a.id}
  /\ \A v \in Workers \ {w} : UNCHANGED <<dirty[v], raised[v], created[v]>>
  /\ UNCHANGED <<assets, findings>>
  /\ raised[w] \subseteq raised'[w]
  /\ created[w] = {}

(* It is new, or a version of one that a query has returned.               *)
IsNew(w, a) == a.id = serial /\ Lookup(w, a.type, a.value) = {}
IsOld(w, a) ==
  \E b \in Merge(assets, dirty[w]) : b.id = a.id /\ b.type = a.type /\ b.value = a.value

(* The pass for subdomains creates one, to be announced.                   *)
Creates(w, a) ==
  /\ a.type = "subdomain" /\ IsNew(w, a)
  /\ raised'[w] = raised[w] /\ created'[w] = {a}

(* It announces what it has created, by the name of an asset like it.      *)
Announces(w, own, a) ==
  /\ created[w] = {own} /\ created'[w] = {}
  /\ a \in assets \cup dirty[w] /\ a.type = "subdomain" /\ a.value = own.value
  /\ raised'[w] = raised[w] \cup
       {[id |-> own.id + 1, kind |-> "new_subdomain", asset |-> a.id, value |-> own.value]}
  /\ UNCHANGED <<assets, findings, dirty>>
  /\ \A v \in Workers \ {w} : UNCHANGED <<raised[v], created[v]>>

(* The other passes announce nothing.                                      *)
Reports(w, a) ==
  /\ a.type \in {"tls_endpoint", "bucket"} /\ (IsNew(w, a) \/ IsOld(w, a))
  /\ created'[w] = {}
  /\ Announcements(raised'[w]) = Announcements(raised[w])
  /\ a.type = "bucket" =>
       /\ a.note = "none" => a.probe = "listing"
       /\ a.probe = "listing" =>
            \E f \in raised'[w] : f.kind = "bucket_listing" /\ f.asset = a.id
  /\ \/ raised'[w] = raised[w] /\ Public!Denied(a)
     \/ \E f : raised'[w] = raised[w] \cup {f} /\ Public!NamesAsset(f, a)

(* Every step records or announces an asset, ends a session or touches no  *)
(* rows.                                                                   *)
LEMMA RecordingSteps ==
  ASSUME InventoryAssumption, InventoryInv, [Next]_vars
  PROVE  \/ UNCHANGED <<assets, findings, dirty, raised, created>>
         \/ \E w \in Workers : CommitDrain(w) \/ RollbackDrain(w)
         \/ \E w \in Workers : \E a \in Asset : Holds(w, a) /\ (Creates(w, a) \/ Reports(w, a))
         \/ \E w \in Workers : \E own \in dirty[w], a \in Asset : Announces(w, own, a)
<1>0. TypeOK
  BY DEF InventoryInv
<1>1. CASE UNCHANGED vars
  BY <1>1 DEF vars, sessions
<1>2. ASSUME NEW w \in Workers,
             \/ BeginDrain(w) \/ EndPass(w)
             \/ \E p \in PassTypes : BeginPass(w, p)
             \/ \E name \in Names : PassOver(w, name)
      PROVE  UNCHANGED <<assets, findings, dirty, raised, created>>
  BY <1>2 DEF BeginDrain, EndPass, BeginPass, PassOver, Done, Take
(* What get_or_create_asset returns is new or old, also once it is updated.*)
<1>3. ASSUME NEW w \in Workers, NEW type, NEW name, NEW b \in GetOrCreate(w, type, name),
             NEW a, a.id = b.id, a.type = b.type, a.value = b.value
      PROVE  a.type = type /\ a.value = name /\ (IsNew(w, a) \/ IsOld(w, a))
  <2>1. CASE Lookup(w, type, name) = {}
    BY <1>3, <2>1 DEF GetOrCreate, NewAsset, IsNew
  <2>2. CASE Lookup(w, type, name) # {}
    BY <1>3, <2>2 DEF GetOrCreate, Lookup, IsOld
  <2> QED BY <2>1, <2>2
<1>4. ASSUME NEW w \in Workers, NEW a, NEW p, NEW name, Save(w, a), Take(w, p, name),
             raised' = raised \/ \E kind : AddFinding(w, kind, a),
             \A v \in Workers \ {w} : created'[v] = created[v]
      PROVE  Holds(w, a)
  <2>1. dirty'[w] = {a} \cup {x \in dirty[w] : x.id # a.id}
    BY <1>0, <1>4 DEF Save, Merge, TypeOK
  <2>2. \A v \in Workers \ {w} : dirty'[v] = dirty[v]
    BY <1>0, <1>4 DEF Save, TypeOK
  <2>3. raised[w] \subseteq raised'[w] /\ \A v \in Workers \ {w} : raised'[v] = raised[v]
    BY <1>0, <1>4 DEF AddFinding, Raise, TypeOK
  <2> QED BY <1>4, <2>1, <2>2, <2>3 DEF Holds, Take
<1>5. ASSUME NEW w \in Workers, NEW name \in Names, CreateSubdomain(w, name)
      PROVE  \E a \in Asset : Holds(w, a) /\ Creates(w, a)
  <2> DEFINE a == NewAsset("subdomain", name)
  <2>1. a \in Asset /\ a.id = serial /\ a.type = "subdomain" /\ a.value = name
    BY <1>5, SerialLeft DEF CreateSubdomain, NewAsset, Asset, AssetTypes
  <2>2. /\ Take(w, "subdomain", name) /\ Save(w, a) /\ raised' = raised
        /\ created' = [created EXCEPT ![w] = {a}]
        /\ Lookup(w, "subdomain", name) = {}
    BY <1>5 DEF CreateSubdomain
  <2> HIDE DEF a
  <2>3. Holds(w, a)
    BY <1>0, <1>4, <2>2 DEF TypeOK
  <2>4. Creates(w, a)
    BY <1>0, <2>1, <2>2 DEF Creates, IsNew, TypeOK
  <2> QED BY <2>1, <2>3, <2>4
<1>9. ASSUME NEW w \in Workers, AnnounceSubdomain(w)
      PROVE  \E own \in dirty[w], a \in Asset : Announces(w, own, a)
  <2>1. PICK own \in created[w] : \E a \in Lookup(w, "subdomain", own.value) :
          Raise(w, own.id + 1, "new_subdomain", a)
    BY <1>9 DEF AnnounceSubdomain
  <2>2. PICK a \in Lookup(w, "subdomain", own.value) :
          Raise(w, own.id + 1, "new_subdomain", a)
    BY <2>1
  <2>3. a \in assets \cup dirty[w] /\ a.type = "subdomain" /\ a.value = own.value
    BY <2>2, LookupFinds
  <2>4. a \in Asset /\ own \in dirty[w] /\ created[w] = {own}
    BY <1>0, <2>1, <2>3 DEF InventoryInv, CreatedInv, TypeOK
  <2>5. raised' = [raised EXCEPT ![w] = @ \cup
          {[id |-> own.id + 1, kind |-> "new_subdomain", asset |-> a.id, value |-> own.value]}]
    BY <2>2, <2>3 DEF Raise
  <2>6. /\ created' = [created EXCEPT ![w] = {}]
        /\ UNCHANGED <<assets, findings, dirty>>
    BY <1>9 DEF AnnounceSubdomain
  <2>7. Announces(w, own, a)
    BY <1>0, <2>3, <2>4, <2>5, <2>6 DEF Announces, TypeOK
  <2> QED BY <2>4, <2>7
<1>6. ASSUME NEW w \in Workers, NEW name \in Names, RecordCertificate(w, name)
      PROVE  \E a \in Asset : Holds(w, a) /\ Reports(w, a)
  <2>1. PICK a \in GetOrCreate(w, "tls_endpoint", name) : Save(w, a) /\ AddFinding(w, "tls", a)
    BY <1>6 DEF RecordCertificate
  <2>2. Take(w, "tls", name) /\ TakeSerials /\ created' = created
    BY <1>6 DEF RecordCertificate, Done
  <2>3. a \in Asset
    BY <2>1, <2>2, SerialLeft, GetOrCreateFinds DEF InventoryInv
  <2>4. a.type = "tls_endpoint" /\ (IsNew(w, a) \/ IsOld(w, a))
    BY <1>3, <2>1
  <2>5. Holds(w, a)
    BY <1>4, <2>1, <2>2
  <2> DEFINE f == [id |-> serial + 1, kind |-> "tls", asset |-> a.id, value |-> a.value]
  <2>6. raised'[w] = raised[w] \cup {f}
    BY <1>0, <2>1 DEF AddFinding, Raise, TypeOK
  <2>7. f.kind = "tls" /\ Public!NamesAsset(f, a)
    BY <2>4 DEF Public!NamesAsset, Public!KindOf
  <2> HIDE DEF f
  <2>8. Announcements(raised'[w]) = Announcements(raised[w])
    BY <2>6, <2>7 DEF Announcements
  <2> QED BY <2>2, <2>3, <2>4, <2>5, <2>6, <2>7, <2>8 DEF Reports, Holds
<1>7. ASSUME NEW w \in Workers, NEW name \in Names, RecordListing(w, name)
      PROVE  \E a \in Asset : Holds(w, a) /\ Reports(w, a)
  <2>1. PICK b \in GetOrCreate(w, "bucket", name) :
          Save(w, [b EXCEPT !.probe = "listing"]) /\ AddFinding(w, "bucket_listing", b)
    BY <1>7 DEF RecordListing
  <2>2. Take(w, "bucket", name) /\ TakeSerials /\ created' = created
    BY <1>7 DEF RecordListing, Done
  <2>3. b \in Asset
    BY <2>1, <2>2, SerialLeft, GetOrCreateFinds DEF InventoryInv
  <2> DEFINE a == [b EXCEPT !.probe = "listing"]
  <2>4. /\ a \in Asset /\ a.id = b.id /\ a.type = b.type /\ a.value = b.value
        /\ a.probe = "listing"
    BY <2>3 DEF Asset
  <2>5. Save(w, a) /\ AddFinding(w, "bucket_listing", a)
    BY <2>1, <2>4 DEF AddFinding, Raise
  <2> HIDE DEF a
  <2>6. a.type = "bucket" /\ (IsNew(w, a) \/ IsOld(w, a))
    BY <1>3, <2>1, <2>4
  <2>7. Holds(w, a)
    BY <1>4, <2>2, <2>5
  <2> DEFINE f == [id |-> serial + 1, kind |-> "bucket_listing", asset |-> a.id, value |-> a.value]
  <2>8. /\ raised'[w] = raised[w] \cup {f} /\ f.kind = "bucket_listing" /\ f.asset = a.id
        /\ Public!NamesAsset(f, a)
    BY <1>0, <2>5, <2>6 DEF AddFinding, Raise, TypeOK, Public!NamesAsset, Public!KindOf
  <2> HIDE DEF f
  <2>9. Announcements(raised'[w]) = Announcements(raised[w])
    BY <2>8 DEF Announcements
  <2>10. \E g \in raised'[w] : g.kind = "bucket_listing" /\ g.asset = a.id
    BY <2>8
  <2> QED BY <2>2, <2>4, <2>6, <2>7, <2>8, <2>9, <2>10 DEF Reports, Holds
<1>8. ASSUME NEW w \in Workers, NEW name \in Names, RecordDenied(w, name)
      PROVE  \E a \in Asset : Holds(w, a) /\ Reports(w, a)
  <2>1. PICK b \in GetOrCreate(w, "bucket", name) :
          Save(w, [b EXCEPT !.note = "without_public_listing", !.probe = "denied"])
    BY <1>8 DEF RecordDenied
  <2>2. Take(w, "bucket", name) /\ TakeSerials /\ raised' = raised /\ created' = created
    BY <1>8 DEF RecordDenied, Done
  <2>3. b \in Asset
    BY <2>1, <2>2, SerialLeft, GetOrCreateFinds DEF InventoryInv
  <2> DEFINE a == [b EXCEPT !.note = "without_public_listing", !.probe = "denied"]
  <2>4. /\ a \in Asset /\ a.id = b.id /\ a.type = b.type /\ a.value = b.value
        /\ a.probe = "denied" /\ a.note = "without_public_listing"
    BY <2>3 DEF Asset
  <2>5. Save(w, a)
    BY <2>1
  <2> HIDE DEF a
  <2>6. a.type = "bucket" /\ (IsNew(w, a) \/ IsOld(w, a))
    BY <1>3, <2>1, <2>4
  <2>7. Holds(w, a)
    BY <1>4, <2>2, <2>5
  <2> QED BY <2>2, <2>4, <2>6, <2>7 DEF Reports, Holds, Public!Denied
<1> QED BY <1>1, <1>2, <1>5, <1>6, <1>7, <1>8, <1>9 DEF Next
-----------------------------------------------------------------------------
(* The invariant is inductive.                                             *)

(* What a session holds after its drain, and the other sessions.           *)
Closes(w) ==
  /\ dirty'[w] = {} /\ raised'[w] = {} /\ created'[w] = {}
  /\ \A v \in Workers \ {w} : UNCHANGED <<dirty[v], raised[v], created[v]>>

(* The end of a drain: its session is empty, and the rows are committed,   *)
(* all of them announced, or as they were.                                 *)
LEMMA EndOfDrain ==
  ASSUME InventoryInv, NEW w \in Workers, CommitDrain(w) \/ RollbackDrain(w)
  PROVE  /\ Closes(w)
         /\ \/ UNCHANGED <<assets, findings>>
            \/ /\ assets' = Merge(assets, dirty[w])
               /\ findings' = findings \cup raised[w]
               /\ Recorded(w) = dirty[w]
<1>1. Closes(w)
  BY CloseEffect DEF CommitDrain, RollbackDrain, Closes
<1>2. CommitDrain(w) => Recorded(w) = dirty[w]
  BY DEF CommitDrain, InventoryInv, CreatedInv, Recorded
<1> QED BY <1>1, <1>2 DEF CommitDrain, RollbackDrain

(* Places keep one version of each asset.                                  *)
LEMMA VersionStep ==
  ASSUME InventoryAssumption, InventoryInv, VersionInv, [Next]_vars
  PROVE  VersionInv'
<1>1. CASE UNCHANGED <<assets, dirty>>
  BY <1>1 DEF VersionInv
<1>2. ASSUME NEW w \in Workers, CommitDrain(w) \/ RollbackDrain(w)
      PROVE  VersionInv'
  <2>1. OneVersion(Merge(assets, dirty[w]))
    BY DEF VersionInv, OneVersion, Merge
  <2>2. \A v \in Workers : OneVersion(dirty'[v])
    BY <1>2, EndOfDrain DEF VersionInv, OneVersion, Closes
  <2> QED BY <1>2, <2>1, <2>2, EndOfDrain DEF VersionInv
<1>3. ASSUME NEW w \in Workers, NEW a \in Asset, Holds(w, a)
      PROVE  VersionInv'
  <2>1. OneVersion(dirty'[w])
    BY <1>3 DEF Holds, VersionInv, OneVersion
  <2> QED BY <1>3, <2>1 DEF Holds, VersionInv
<1> QED BY <1>1, <1>2, <1>3, RecordingSteps DEF Announces

(* Buckets keep the findings that their probes call for.                   *)
LEMMA ListStep ==
  ASSUME InventoryAssumption, InventoryInv, ListInv, [Next]_vars
  PROVE  ListInv'
<1>1. CASE UNCHANGED <<assets, findings, dirty, raised>>
  BY <1>1 DEF ListInv
<1>2. ASSUME NEW w \in Workers, CommitDrain(w) \/ RollbackDrain(w)
      PROVE  ListInv'
  <2>1. CASE UNCHANGED <<assets, findings>>
    <3>1. \A v \in Workers : Listed(dirty'[v], findings \cup raised'[v])
      BY <1>2, EndOfDrain DEF Closes, ListInv, Listed
    <3> QED BY <2>1, <3>1 DEF ListInv
  <2>2. CASE /\ assets' = Merge(assets, dirty[w])
             /\ findings' = findings \cup raised[w]
    <3>1. Listed(assets', findings')
      BY <2>2 DEF ListInv, Listed, Merge
    <3>2. \A v \in Workers : Listed(dirty'[v], findings' \cup raised'[v])
      BY <1>2, <2>2, EndOfDrain DEF Closes, ListInv, Listed
    <3> QED BY <3>1, <3>2 DEF ListInv
  <2> QED BY <1>2, <2>1, <2>2, EndOfDrain
<1>3. ASSUME NEW w \in Workers, NEW a \in Asset, Holds(w, a), Creates(w, a) \/ Reports(w, a)
      PROVE  ListInv'
  <2>1. Listed(dirty'[w], findings \cup raised'[w])
    <3>1. Listed(dirty[w], findings \cup raised'[w])
      BY <1>3 DEF Holds, ListInv, Listed
    <3>2. Listed({a}, findings \cup raised'[w])
      BY <1>3 DEF Creates, Reports, Listed
    <3> QED BY <1>3, <3>1, <3>2 DEF Holds, Listed
  <2> QED BY <1>3, <2>1 DEF Holds, ListInv
<1>4. ASSUME NEW w \in Workers, NEW own, NEW a, Announces(w, own, a)
      PROVE  ListInv'
  <2>1. \A v \in Workers : raised[v] \subseteq raised'[v]
    BY <1>4 DEF Announces
  <2> QED BY <1>4, <2>1 DEF Announces, ListInv, Listed
<1> QED BY <1>1, <1>2, <1>3, <1>4, RecordingSteps

(* Subdomains and announcements stay paired.                               *)
LEMMA PairStep ==
  ASSUME InventoryAssumption, InventoryInv, VersionInv, PairInv, [Next]_vars
  PROVE  PairInv'
<1>0. \A x \in Known : x.id \in Nat /\ x.id # serial
  BY DEF InventoryInv, VersionsAgree, TypeOK, Known, Asset
<1>. assets \subseteq Known /\ \A v \in Workers : dirty[v] \subseteq Known
  BY DEF Known
<1>1. CASE UNCHANGED <<assets, findings, dirty, raised, created>>
  BY <1>1 DEF PairInv, Recorded
<1>2. ASSUME NEW w \in Workers, CommitDrain(w) \/ RollbackDrain(w)
      PROVE  PairInv'
  <2>1. Closes(w)
    BY <1>2, EndOfDrain
  <2>2. Paired({}, {})
    BY DEF Paired, Subdomains, Announcements
  <2>3. \A v \in Workers : Paired(Recorded(v)', raised'[v])
    BY <2>1, <2>2 DEF Closes, PairInv, Recorded
  <2>4. \A v \in Workers : Subdomains(dirty'[v]) \subseteq Subdomains(dirty[v])
    BY <2>1 DEF Closes, Subdomains
  <2>5. CASE UNCHANGED <<assets, findings>>
    BY <2>3, <2>4, <2>5 DEF PairInv
  <2>6. CASE /\ assets' = Merge(assets, dirty[w])
             /\ findings' = findings \cup raised[w]
             /\ Recorded(w) = dirty[w]
    (* No version of a subdomain is replaced.                              *)
    <3>1. Subdomains(assets') = Subdomains(assets) \cup Subdomains(dirty[w])
      <4>1. \A a \in Subdomains(assets) : \A b \in dirty[w] : a.id # b.id
        <5>1. \A a \in Subdomains(assets) : \A b \in dirty[w] :
                 a.id = b.id => b \in Subdomains(dirty[w])
          BY DEF InventoryInv, VersionsAgree, Known, Subdomains
        <5> QED BY <5>1 DEF PairInv
      <4> QED BY <2>6, <4>1 DEF Merge, Subdomains
    <3>2. Announcements(findings') = Announcements(findings) \cup Announcements(raised[w])
      BY <2>6 DEF Announcements
    <3>3. Paired(assets', findings')
      <4>0. Paired(assets, findings) /\ Paired(dirty[w], raised[w])
        BY <2>6 DEF PairInv
      <4>1. ASSUME NEW f \in Announcements(findings), NEW g \in Announcements(raised[w])
            PROVE  f.id # g.id
        <5>1. PICK a \in Subdomains(assets) : f.id = a.id + 1
          BY <4>0 DEF Paired
        <5>2. PICK b \in Subdomains(dirty[w]) : g.id = b.id + 1
          BY <4>0 DEF Paired
        <5>3. a.id \in Nat /\ b.id \in Nat /\ a.id # b.id
          BY <1>0 DEF PairInv, Subdomains
        <5> QED BY <5>1, <5>2, <5>3
      <4> QED BY <3>1, <3>2, <4>0, <4>1 DEF Paired
    <3>4. \A v \in Workers : \A a \in Subdomains(dirty'[v]) :
            \A b \in Subdomains(assets') : a.id # b.id
      <4>1. Subdomains(dirty'[w]) = {}
        BY <2>1 DEF Closes, Subdomains
      <4>2. \A v \in Workers \ {w} : Subdomains(dirty'[v]) = Subdomains(dirty[v])
        BY <2>1 DEF Closes
      <4> QED BY <3>1, <4>1, <4>2 DEF PairInv
    <3> QED BY <2>3, <2>4, <3>3, <3>4 DEF PairInv
  <2> QED BY <1>2, <2>5, <2>6, EndOfDrain
<1>3. ASSUME NEW w \in Workers, NEW a \in Asset, Holds(w, a), Creates(w, a)
      PROVE  PairInv'
  <2>1. a.id = serial /\ a.type = "subdomain"
    BY <1>3 DEF Creates, IsNew
  <2>2. \A x \in dirty[w] : x.id # a.id
    BY <1>0, <2>1
  <2>3. dirty'[w] = dirty[w] \cup {a}
    BY <1>3, <2>2 DEF Holds
  <2>4. Recorded(w)' = Recorded(w) /\ raised'[w] = raised[w]
    BY <1>3, <2>2, <2>3 DEF Recorded, Creates, Holds
  <2>5. \A v \in Workers \ {w} :
          dirty'[v] = dirty[v] /\ raised'[v] = raised[v] /\ Recorded(v)' = Recorded(v)
    BY <1>3 DEF Holds, Recorded
  <2>6. \A v \in Workers : Paired(Recorded(v)', raised'[v])
    BY <2>4, <2>5 DEF PairInv
  <2>7. Subdomains(dirty'[w]) = Subdomains(dirty[w]) \cup {a}
    BY <2>1, <2>3 DEF Subdomains
  <2>8. \A x \in Subdomains(assets) : x.id # a.id
    BY <1>0, <2>1 DEF Subdomains
  <2>9. \A v \in Workers : \A x \in Subdomains(dirty[v]) : x.id # a.id
    BY <1>0, <2>1 DEF Subdomains
  <2>10. UNCHANGED <<assets, findings>>
    BY <1>3 DEF Holds
  <2> QED BY <2>5, <2>6, <2>7, <2>8, <2>9, <2>10 DEF PairInv
<1>4. ASSUME NEW w \in Workers, NEW a \in Asset, Holds(w, a), Reports(w, a)
      PROVE  PairInv'
  <2>1. \A x \in dirty[w] : x.id = a.id => x.type = a.type
    <3>1. CASE IsNew(w, a)
      BY <1>0, <3>1 DEF IsNew
    <3>2. CASE IsOld(w, a)
      BY <3>2 DEF IsOld, Merge, InventoryInv, VersionsAgree, Known
    <3> QED BY <1>4, <3>1, <3>2 DEF Reports
  <2>2. Subdomains(dirty'[w]) = Subdomains(dirty[w])
    BY <1>4, <2>1 DEF Holds, Reports, Subdomains
  <2>3. \A v \in Workers : Subdomains(dirty'[v]) = Subdomains(dirty[v])
    BY <1>4, <2>2 DEF Holds
  <2>4. \A v \in Workers : /\ Announcements(raised'[v]) = Announcements(raised[v])
                           /\ created'[v] = created[v]
    BY <1>4 DEF Holds, Reports
  <2>5. \A v \in Workers : Subdomains(Recorded(v)') = Subdomains(Recorded(v))
    BY <2>3, <2>4 DEF Recorded, Subdomains
  <2>6. \A v \in Workers : Paired(Recorded(v)', raised'[v])
    BY <2>4, <2>5 DEF PairInv, Paired
  <2> QED BY <1>4, <2>3, <2>6 DEF Holds, PairInv
<1>5. ASSUME NEW w \in Workers, NEW own \in dirty[w], NEW a, Announces(w, own, a)
      PROVE  PairInv'
  <2> DEFINE f == [id |-> own.id + 1, kind |-> "new_subdomain", asset |-> a.id,
                   value |-> own.value]
  <2>1. /\ raised'[w] = raised[w] \cup {f}
        /\ f.kind = "new_subdomain" /\ f.id = own.id + 1 /\ f.value = own.value
    BY <1>5 DEF Announces
  <2> HIDE DEF f
  <2>2. own.type = "subdomain" /\ own \in created[w] /\ created[w] = {own}
    BY <1>5 DEF Announces, InventoryInv, CreatedInv
  <2>3. Recorded(w)' = Recorded(w) \cup {own} /\ own \notin Recorded(w)
    BY <1>5, <2>2 DEF Announces, Recorded
  <2>4. /\ Subdomains(Recorded(w)') = Subdomains(Recorded(w)) \cup {own}
        /\ Announcements(raised'[w]) = Announcements(raised[w]) \cup {f}
    BY <2>1, <2>2, <2>3 DEF Subdomains, Announcements
  <2>5. Paired(Recorded(w), raised[w])
    BY DEF PairInv
  <2>6. ASSUME NEW g \in Announcements(raised[w]) PROVE g.id # f.id
    <3>1. PICK x \in Subdomains(Recorded(w)) : g.id = x.id + 1
      BY <2>5 DEF Paired
    <3>2. x \in dirty[w] /\ x # own
      BY <2>3 DEF Subdomains, Recorded
    <3>3. x.id \in Nat /\ own.id \in Nat /\ x.id # own.id
      BY <1>0, <3>2 DEF VersionInv, OneVersion
    <3> QED BY <2>1, <3>1, <3>3
  <2>7. Paired(Recorded(w)', raised'[w])
    <3> DEFINE A == Subdomains(Recorded(w))
               F == Announcements(raised[w])
    <3>1. /\ \A x \in A : \E g \in F : g.id = x.id + 1 /\ g.value = x.value
          /\ \A g \in F : \E x \in A : g.id = x.id + 1 /\ g.value = x.value
          /\ \A g, h \in F : g.id = h.id => g = h
      BY <2>5 DEF Paired
    <3>2. \A g \in F : g.id # f.id
      BY <2>6
    <3> HIDE DEF A, F
    <3>3. /\ \A x \in A \cup {own} : \E g \in F \cup {f} : g.id = x.id + 1 /\ g.value = x.value
          /\ \A g \in F \cup {f} : \E x \in A \cup {own} : g.id = x.id + 1 /\ g.value = x.value
          /\ \A g, h \in F \cup {f} : g.id = h.id => g = h
      BY <2>1, <3>1, <3>2
    <3> QED BY <2>4, <3>3 DEF Paired, A, F
  <2>8. \A v \in Workers \ {w} : Recorded(v)' = Recorded(v) /\ raised'[v] = raised[v]
    BY <1>5 DEF Announces, Recorded
  <2>9. UNCHANGED <<assets, findings, dirty>>
    BY <1>5 DEF Announces
  <2> QED BY <2>7, <2>8, <2>9 DEF PairInv
<1> QED BY <1>1, <1>2, <1>3, <1>4, <1>5, RecordingSteps
-----------------------------------------------------------------------------
(* Entries.                                                                *)

(* Assets that stay, in whatever version, can still be named.              *)
LEMMA StillNamed ==
  ASSUME NEW A, NEW F, NEW K, NEW L, Public!Complete(A, F, K),
         \A x \in K : \E y \in L : x.id = y.id /\ x.type = y.type /\ x.value = y.value
  PROVE  Public!Complete(A, F, L)
<1>1. ASSUME NEW f \in F PROVE \E y \in A \cup L : Public!NamesAsset(f, y)
  <2>1. PICK x \in A \cup K : Public!NamesAsset(f, x)
    BY DEF Public!Complete
  <2> QED BY <2>1 DEF Public!NamesAsset
<1> QED BY <1>1 DEF Public!Complete

(* A session that records an asset, with the finding f or without one,     *)
(* stays fit to be entered.                                                *)
LEMMA EntryGrows ==
  ASSUME NEW A, NEW F, NEW K, NEW a, NEW G, Public!Complete(A, F, K),
         \A x \in A : x.id = a.id => x.type = a.type /\ x.value = a.value,
         \/ G = F /\ Public!Denied(a)
         \/ \E f : G = F \cup {f} /\ Public!NamesAsset(f, a)
  PROVE  Public!Complete({a} \cup {x \in A : x.id # a.id}, G, K)
<1> DEFINE B == {a} \cup {x \in A : x.id # a.id}
<1>1. F \subseteq G
  OBVIOUS
<1>2. \A x \in B : Public!Denied(x) \/ \E f \in G : Public!Tells(f, x)
  <2>1. Public!Denied(a) \/ \E f \in G : Public!Tells(f, a)
    BY DEF Public!NamesAsset, Public!Tells
  <2>2. \A x \in A : Public!Denied(x) \/ \E f \in G : Public!Tells(f, x)
    BY <1>1 DEF Public!Complete
  <2> QED BY <2>1, <2>2
<1>3. ASSUME NEW f \in G
      PROVE  (\E x \in B : Public!Tells(f, x)) /\ (\E x \in B \cup K : Public!NamesAsset(f, x))
  <2>1. CASE f \in F
    <3>1. PICK x \in A : Public!Tells(f, x)
      BY <2>1 DEF Public!Complete
    <3>2. PICK y \in A \cup K : Public!NamesAsset(f, y)
      BY <2>1 DEF Public!Complete
    <3>3. x.id = a.id => Public!Tells(f, a)
      BY <3>1 DEF Public!Tells
    <3>4. y \in A /\ y.id = a.id => Public!NamesAsset(f, a)
      BY <3>2 DEF Public!NamesAsset
    <3> QED BY <3>1, <3>2, <3>3, <3>4
  <2>2. CASE Public!NamesAsset(f, a)
    BY <2>2 DEF Public!NamesAsset, Public!Tells
  <2> QED BY <2>1, <2>2
<1>4. \A x, y \in B : x.id = y.id => x = y
  BY DEF Public!Complete
<1> QED BY <1>2, <1>3, <1>4 DEF Public!Complete

(* A session that announces what it has created stays fit to be entered,   *)
(* also if it names a, another asset of that name.                         *)
LEMMA EntryAnnounced ==
  ASSUME NEW A, NEW F, NEW K, NEW own, NEW a, NEW f, Public!Complete(A, F, K),
         \A x \in A : x.id # own.id,
         own.type = "subdomain", a \in A \cup {own} \cup K,
         a.type = "subdomain", a.value = own.value,
         f.kind = "new_subdomain", f.asset = a.id, f.value = own.value
  PROVE  Public!Complete(A \cup {own}, F \cup {f}, K)
<1>1. Public!Tells(f, own) /\ Public!NamesAsset(f, a)
  BY DEF Public!Tells, Public!NamesAsset, Public!KindOf
<1>2. \A x \in A \cup {own} : Public!Denied(x) \/ \E g \in F \cup {f} : Public!Tells(g, x)
  BY <1>1 DEF Public!Complete
<1>3. \A g \in F \cup {f} : /\ \E x \in A \cup {own} : Public!Tells(g, x)
                         /\ \E x \in A \cup {own} \cup K : Public!NamesAsset(g, x)
  BY <1>1 DEF Public!Complete
<1>4. \A x, y \in A \cup {own} : x.id = y.id => x = y
  BY DEF Public!Complete
<1> QED BY <1>2, <1>3, <1>4 DEF Public!Complete

(* An asset that a session records is a version of what it has had.        *)
LEMMA VersionOf ==
  ASSUME InventoryAssumption, InventoryInv, NEW w \in Workers, NEW a \in Asset,
         IsNew(w, a) \/ IsOld(w, a)
  PROVE  \A x \in dirty[w] : x.id = a.id => x.type = a.type /\ x.value = a.value
<1>1. CASE IsNew(w, a)
  BY <1>1 DEF IsNew, InventoryInv, VersionsAgree, TypeOK, Known, Asset
<1>2. CASE IsOld(w, a)
  BY <1>2 DEF IsOld, Merge, InventoryInv, VersionsAgree, Known
<1> QED BY <1>1, <1>2

(* Every step leaves the sessions fit to be entered.                       *)
LEMMA EntryStep ==
  ASSUME InventoryAssumption, InventoryInv, VersionInv, EntryInv, [Next]_vars
  PROVE  EntryInv'
<1> DEFINE Fit(A, R, F, K) ==
             Public!Complete(R, F, K) /\ Public!OnceEach(A, F)
<1>1. \A w \in Workers : Fit(dirty[w], Recorded(w), raised[w], assets)
  BY DEF EntryInv
<1>2. SUFFICES \A w \in Workers : Fit(dirty'[w], Recorded(w)', raised'[w], assets')
  BY DEF EntryInv, Public!Complete, Public!OnceEach, Public!Tells, Public!NamesAsset,
         Public!Denied
<1>3. CASE UNCHANGED <<assets, findings, dirty, raised, created>>
  BY <1>1, <1>3 DEF Recorded
<1>4. ASSUME NEW w \in Workers, CommitDrain(w) \/ RollbackDrain(w)
      PROVE  \A v \in Workers : Fit(dirty'[v], Recorded(v)', raised'[v], assets')
  <2>1. Closes(w)
    BY <1>4, EndOfDrain
  <2>2. \A x \in assets : \E y \in assets' :
          x.id = y.id /\ x.type = y.type /\ x.value = y.value
    <3>1. CASE assets' = assets
      BY <3>1
    <3>2. CASE assets' = Merge(assets, dirty[w])
      <4>1. SUFFICES ASSUME NEW x \in assets
                     PROVE  \E y \in assets' : x.id = y.id /\ x.type = y.type /\ x.value = y.value
        OBVIOUS
      <4>2. PICK y \in assets' : y.id = x.id /\ (y = x \/ y \in dirty[w])
        BY <3>2, MergeKeeps
      <4> QED BY <4>2 DEF InventoryInv, VersionsAgree, Known
    <3> QED BY <1>4, <3>1, <3>2, EndOfDrain
  <2>3. ASSUME NEW v \in Workers \ {w}
        PROVE  Fit(dirty'[v], Recorded(v)', raised'[v], assets')
    <3>1. dirty'[v] = dirty[v] /\ raised'[v] = raised[v] /\ Recorded(v)' = Recorded(v)
      BY <2>1 DEF Closes, Recorded
    <3>2. Public!Complete(Recorded(v), raised[v], assets')
      BY <1>1, <2>2, StillNamed
    <3> QED BY <1>1, <3>1, <3>2
  <2>4. Fit(dirty'[w], Recorded(w)', raised'[w], assets')
    <3>1. dirty'[w] = {} /\ raised'[w] = {} /\ Recorded(w)' = {}
      BY <2>1 DEF Closes, Recorded
    <3>2. \A K : Public!Complete({}, {}, K) /\ Public!OnceEach({}, {})
      BY DEF Public!Complete, Public!OnceEach
    <3> QED BY <3>1, <3>2
  <2> QED BY <2>3, <2>4
(* The other sessions in a step of w.                                      *)
<1>5. ASSUME NEW w \in Workers, NEW v \in Workers \ {w}, assets' = assets,
             UNCHANGED <<dirty[v], raised[v], created[v]>>
      PROVE  Fit(dirty'[v], Recorded(v)', raised'[v], assets')
  BY <1>1, <1>5 DEF Recorded
<1>6. ASSUME NEW w \in Workers, NEW a \in Asset, Holds(w, a), Creates(w, a)
      PROVE  \A v \in Workers : Fit(dirty'[v], Recorded(v)', raised'[v], assets')
  <2>1. \A x \in dirty[w] : x.id # a.id
    BY <1>6 DEF Creates, IsNew, InventoryInv, VersionsAgree, TypeOK, Known, Asset
  <2>2. dirty'[w] = dirty[w] \cup {a} /\ Recorded(w)' = Recorded(w)
    BY <1>6, <2>1 DEF Holds, Creates, Recorded
  <2>3. \A x \in dirty[w] : ~(x.type = "subdomain" /\ x.value = a.value)
    BY <1>6 DEF Creates, IsNew, Lookup, Merge
  <2>4. raised'[w] = raised[w] /\ assets' = assets
    BY <1>6 DEF Creates, Holds
  <2>5. Public!OnceEach(dirty'[w], raised[w])
    BY <1>1, <2>2, <2>3 DEF Public!OnceEach
  <2>6. Fit(dirty'[w], Recorded(w)', raised'[w], assets')
    BY <1>1, <2>2, <2>4, <2>5
  <2> QED BY <1>5, <1>6, <2>6 DEF Holds
<1>7. ASSUME NEW w \in Workers, NEW a \in Asset, Holds(w, a), Reports(w, a)
      PROVE  \A v \in Workers : Fit(dirty'[v], Recorded(v)', raised'[v], assets')
  <2>1. \A x \in dirty[w] : x.id = a.id => x.type = a.type /\ x.value = a.value
    BY <1>7, VersionOf DEF Reports
  <2>2. /\ Recorded(w) = dirty[w] /\ Recorded(w)' = dirty'[w] /\ assets' = assets
        /\ dirty'[w] = {a} \cup {x \in dirty[w] : x.id # a.id}
    BY <1>7 DEF Holds, Reports, Recorded
  <2>3. Public!Complete(dirty'[w], raised'[w], assets')
    BY <1>1, <1>7, <2>1, <2>2, EntryGrows DEF Reports
  <2>4. Announcements(raised'[w]) = Announcements(raised[w]) /\ a.type # "subdomain"
    BY <1>7 DEF Reports
  <2>5. Public!OnceEach(dirty'[w], raised'[w])
    BY <1>1, <2>2, <2>4 DEF Public!OnceEach, Announcements
  <2>6. Fit(dirty'[w], Recorded(w)', raised'[w], assets')
    BY <2>2, <2>3, <2>5
  <2> QED BY <1>5, <1>7, <2>6 DEF Holds
<1>8. ASSUME NEW w \in Workers, NEW own \in dirty[w], NEW a \in Asset, Announces(w, own, a)
      PROVE  \A v \in Workers : Fit(dirty'[v], Recorded(v)', raised'[v], assets')
  <2> DEFINE f == [id |-> own.id + 1, kind |-> "new_subdomain", asset |-> a.id,
                   value |-> own.value]
  <2>1. /\ raised'[w] = raised[w] \cup {f}
        /\ f.kind = "new_subdomain" /\ f.asset = a.id /\ f.value = own.value
    BY <1>8 DEF Announces
  <2> HIDE DEF f
  <2>2. own.type = "subdomain" /\ own \in created[w]
    BY <1>8 DEF Announces, InventoryInv, CreatedInv
  <2>3. /\ dirty'[w] = dirty[w] /\ assets' = assets /\ Recorded(w)' = Recorded(w) \cup {own}
        /\ dirty[w] = Recorded(w) \cup {own}
    BY <1>8, <2>2 DEF Announces, Recorded
  <2>4. \A x \in Recorded(w) : x \in dirty[w] /\ x # own /\ x.id # own.id
    BY <2>2 DEF Recorded, VersionInv, OneVersion
  <2>5. Public!Complete(Recorded(w)', raised'[w], assets')
    <3>1. a \in Recorded(w) \cup {own} \cup assets /\ a.type = "subdomain" /\ a.value = own.value
      BY <1>8, <2>3 DEF Announces
    <3>2. Public!Complete(Recorded(w) \cup {own}, raised[w] \cup {f}, assets)
      BY <1>1, <2>1, <2>2, <2>4, <3>1, EntryAnnounced
    <3> QED BY <2>1, <2>3, <3>2
  (* What it has announced so far are other names.                         *)
  <2>6. ASSUME NEW g \in raised[w], g.kind = "new_subdomain" PROVE g.value # own.value
    <3>1. PICK x \in Recorded(w) : Public!Tells(g, x)
      BY <1>1 DEF Public!Complete
    <3>2. x.type \in AssetTypes
      BY <2>4, <3>1 DEF InventoryInv, TypeOK, Asset
    <3>3. x.type = "subdomain" /\ g.value = x.value
      BY <2>6, <3>1, <3>2 DEF Public!Tells, Public!KindOf, AssetTypes
    <3> QED BY <1>1, <2>2, <2>4, <3>3 DEF Public!OnceEach
  <2>7. Public!OnceEach(dirty[w], raised[w] \cup {f})
    BY <1>1, <2>1, <2>6 DEF Public!OnceEach
  <2>8. Fit(dirty'[w], Recorded(w)', raised'[w], assets')
    BY <2>1, <2>3, <2>5, <2>7
  <2> QED BY <1>5, <1>8, <2>8 DEF Announces
<1> HIDE DEF Fit
<1> QED BY <1>3, <1>4, <1>6, <1>7, <1>8, RecordingSteps
-----------------------------------------------------------------------------
(* Copies.                                                                 *)

(* The bound for one type and value.                                       *)
CopyOf(type, name) ==
  /\ \A w \in Workers : \A i, j \in Fresh(w, type, name) : i = j
  /\ Cardinality(Ids(assets, type, name)) + Cardinality(Holders(type, name))
       <= Cardinality(Workers)

(* The sets that CopyInv counts are finite.                                *)
LEMMA CopiesFinite ==
  ASSUME InventoryAssumption, NEW A \in SUBSET Asset, NEW type, NEW name
  PROVE  /\ IsFiniteSet(Ids(A, type, name)) /\ Cardinality(Ids(A, type, name)) \in Nat
         /\ IsFiniteSet(Holders(type, name)) /\ Cardinality(Holders(type, name)) \in Nat
         /\ IsFiniteSet(Holders(type, name)') /\ Cardinality(Holders(type, name)') \in Nat
         /\ Cardinality(Holders(type, name)') <= Cardinality(Workers)
         /\ Cardinality(Workers) \in Nat
<1>1. IsFiniteSet(0..MaxSerial) /\ Ids(A, type, name) \in SUBSET (0..MaxSerial)
  BY FS_Interval DEF InventoryAssumption, Ids, Asset
<1>2. /\ IsFiniteSet(Workers)
      /\ Holders(type, name) \in SUBSET Workers /\ Holders(type, name)' \in SUBSET Workers
  BY DEF InventoryAssumption, Holders
<1> QED BY <1>1, <1>2, FS_Subset, FS_CardinalityType

(* Fewer fresh copies and as many committed ones keep the bound.           *)
LEMMA FreshShrinks ==
  ASSUME InventoryAssumption, TypeOK, NEW type, NEW name, CopyOf(type, name),
         Ids(assets', type, name) = Ids(assets, type, name),
         \A v \in Workers : Fresh(v, type, name)' \subseteq Fresh(v, type, name)
  PROVE  CopyOf(type, name)'
<1>1. Holders(type, name)' \subseteq Holders(type, name)
  BY DEF Holders
<1>2. Cardinality(Holders(type, name)') <= Cardinality(Holders(type, name))
  BY <1>1, CopiesFinite, FS_Subset DEF TypeOK
<1>3. \A w \in Workers : \A i, j \in Fresh(w, type, name)' : i = j
  BY DEF CopyOf
<1>4. /\ Cardinality(Ids(assets, type, name)) \in Nat
      /\ Cardinality(Holders(type, name)) \in Nat /\ Cardinality(Holders(type, name)') \in Nat
      /\ Cardinality(Workers) \in Nat
  BY CopiesFinite DEF TypeOK
<1>5. Cardinality(Ids(assets', type, name)) + Cardinality(Holders(type, name)')
        <= Cardinality(Workers)
  BY <1>2, <1>4 DEF CopyOf
<1> QED BY <1>3, <1>5 DEF CopyOf

(* No step lets the copies of an asset outnumber the workers.              *)
LEMMA CopyStep ==
  ASSUME InventoryAssumption, InventoryInv, NEW type, NEW name,
         CopyOf(type, name), [Next]_vars
  PROVE  CopyOf(type, name)'
<1>0. TypeOK
  BY DEF InventoryInv
<1>1. CASE UNCHANGED <<assets, dirty>>
  BY <1>0, <1>1, FreshShrinks DEF Fresh
<1>2. ASSUME NEW w \in Workers, CommitDrain(w) \/ RollbackDrain(w)
      PROVE  CopyOf(type, name)'
  <2>1. /\ Ids(dirty'[w], type, name) = {}
        /\ \A v \in Workers \ {w} : dirty'[v] = dirty[v]
    BY <1>2, EndOfDrain DEF Closes, Ids
  <2>2. CASE assets' = assets
    BY <1>0, <2>1, <2>2, FreshShrinks DEF Fresh
  <2>3. CASE assets' = Merge(assets, dirty[w])
    <3>1. Ids(assets', type, name) = Ids(assets, type, name) \cup Fresh(w, type, name)
      <4>1. \A i \in Ids(assets', type, name) :
              i \in Ids(assets, type, name) \/ i \in Ids(dirty[w], type, name)
        BY <2>3 DEF Ids, Merge
      <4>2. Ids(dirty[w], type, name) \subseteq Ids(assets', type, name)
        BY <2>3 DEF Ids, Merge
      <4>3. Ids(assets, type, name) \subseteq Ids(assets', type, name)
        <5>1. SUFFICES ASSUME NEW a \in assets, a.type = type, a.value = name
                       PROVE  \E b \in assets' : b.id = a.id /\ b.type = type /\ b.value = name
          BY DEF Ids
        <5>2. PICK b \in assets' : b.id = a.id /\ (b = a \/ b \in dirty[w])
          BY <2>3, <5>1, MergeKeeps
        <5>3. b.type = type /\ b.value = name
          BY <5>1, <5>2 DEF InventoryInv, VersionsAgree, Known
        <5> QED BY <5>2, <5>3
      <4> QED BY <4>1, <4>2, <4>3 DEF Fresh
    <3>2. \A v \in Workers : Fresh(v, type, name)' \subseteq Fresh(v, type, name)
      BY <2>1, <3>1 DEF Fresh
    <3>3. CASE Fresh(w, type, name) = {}
      BY <1>0, <3>1, <3>2, <3>3, FreshShrinks
    <3>4. CASE Fresh(w, type, name) # {}
      <4>1. PICK i : Fresh(w, type, name) = {i}
        BY <3>4 DEF CopyOf
      <4>2. Holders(type, name)' \in SUBSET (Holders(type, name) \ {w})
        BY <2>1, <3>2 DEF Holders, Fresh
      <4>3. w \in Holders(type, name)
        BY <3>4 DEF Holders
      <4>4. /\ IsFiniteSet(Ids(assets, type, name)) /\ Cardinality(Ids(assets, type, name)) \in Nat
            /\ IsFiniteSet(Holders(type, name)) /\ Cardinality(Holders(type, name)) \in Nat
            /\ Cardinality(Holders(type, name)') \in Nat /\ Cardinality(Workers) \in Nat
        BY <1>0, CopiesFinite DEF TypeOK
      <4>5. /\ IsFiniteSet(Holders(type, name) \ {w})
            /\ Cardinality(Holders(type, name) \ {w}) = Cardinality(Holders(type, name)) - 1
        BY <4>3, <4>4, FS_RemoveElement
      <4>6. Cardinality(Holders(type, name)') <= Cardinality(Holders(type, name)) - 1
        BY <4>2, <4>5, FS_Subset
      <4>7. /\ Cardinality(Ids(assets', type, name)) \in Nat
            /\ Cardinality(Ids(assets', type, name)) <= Cardinality(Ids(assets, type, name)) + 1
        <5>1. Cardinality(Ids(assets, type, name) \cup {i}) \in
                {Cardinality(Ids(assets, type, name)), Cardinality(Ids(assets, type, name)) + 1}
          BY <4>4, FS_AddElement
        <5> QED BY <3>1, <4>1, <4>4, <5>1
      <4>8. \A v \in Workers : \A j, k \in Fresh(v, type, name)' : j = k
        BY <3>2 DEF CopyOf
      <4>9. Cardinality(Ids(assets', type, name)) + Cardinality(Holders(type, name)')
              <= Cardinality(Workers)
        BY <4>4, <4>6, <4>7 DEF CopyOf
      <4> QED BY <4>8, <4>9 DEF CopyOf
    <3> QED BY <3>3, <3>4
  <2> QED BY <1>2, <2>2, <2>3, EndOfDrain
<1>3. ASSUME NEW w \in Workers, NEW a \in Asset, Holds(w, a), IsNew(w, a) \/ IsOld(w, a)
      PROVE  CopyOf(type, name)'
  <2>1. /\ assets' = assets /\ dirty'[w] = {a} \cup {x \in dirty[w] : x.id # a.id}
        /\ \A v \in Workers \ {w} : dirty'[v] = dirty[v]
    BY <1>3 DEF Holds
  <2>2. \A v \in Workers \ {w} : Fresh(v, type, name)' = Fresh(v, type, name)
    BY <2>1 DEF Fresh
  <2>3. \A x \in dirty[w] : x.id = a.id => x.type = a.type /\ x.value = a.value
    <3>1. CASE IsNew(w, a)
      BY <3>1 DEF IsNew, InventoryInv, VersionsAgree, TypeOK, Known, Asset
    <3>2. CASE IsOld(w, a)
      BY <3>2 DEF IsOld, Merge, InventoryInv, VersionsAgree, Known
    <3> QED BY <1>3, <3>1, <3>2
  <2>4. CASE a.type # type \/ a.value # name
    <3>1. Ids(dirty'[w], type, name) = Ids(dirty[w], type, name)
      BY <2>1, <2>3, <2>4 DEF Ids
    <3> QED BY <1>0, <2>1, <2>2, <3>1, FreshShrinks DEF Fresh
  (* A new asset is the first of its type and value that w can see.        *)
  <2>5. CASE a.type = type /\ a.value = name /\ IsNew(w, a)
    <3>1. \A x \in dirty[w] : ~(x.type = type /\ x.value = name)
      BY <2>5 DEF IsNew, Lookup, Merge
    <3>2. \A x \in assets : ~(x.type = type /\ x.value = name)
      <4>1. SUFFICES ASSUME NEW x \in assets, x.type = type, x.value = name
                     PROVE  FALSE
        OBVIOUS
      <4>2. PICK b \in Merge(assets, dirty[w]) : b.id = x.id /\ (b = x \/ b \in dirty[w])
        BY MergeKeeps
      <4>3. b.type = type /\ b.value = name
        BY <4>1, <4>2 DEF InventoryInv, VersionsAgree, Known
      <4> QED BY <2>5, <4>2, <4>3 DEF IsNew, Lookup
    <3>3. Ids(assets', type, name) = {}
      BY <2>1, <3>2 DEF Ids
    <3>4. Fresh(w, type, name)' \subseteq {a.id}
      BY <2>1, <3>1 DEF Fresh, Ids
    <3>5. \A v \in Workers : \A i, j \in Fresh(v, type, name)' : i = j
      BY <2>2, <3>4 DEF CopyOf
    <3>6. /\ Cardinality(Holders(type, name)') <= Cardinality(Workers)
          /\ Cardinality(Holders(type, name)') \in Nat /\ Cardinality(Workers) \in Nat
      BY <1>0, CopiesFinite DEF TypeOK
    <3>7. Cardinality(Ids(assets', type, name)) + Cardinality(Holders(type, name)')
            <= Cardinality(Workers)
      BY <3>3, <3>6, FS_EmptySet
    <3> QED BY <3>5, <3>7 DEF CopyOf
  <2>6. CASE a.type = type /\ a.value = name /\ IsOld(w, a)
    <3>1. a.id \in Ids(assets, type, name) \cup Ids(dirty[w], type, name)
      BY <2>6 DEF IsOld, Merge, Ids
    <3>2. Ids(dirty'[w], type, name) \subseteq Ids(dirty[w], type, name) \cup {a.id}
      BY <2>1 DEF Ids
    <3>3. Fresh(w, type, name)' \subseteq Fresh(w, type, name)
      BY <2>1, <3>1, <3>2 DEF Fresh
    <3> QED BY <1>0, <2>1, <2>2, <3>3, FreshShrinks
  <2> QED BY <1>3, <2>4, <2>5, <2>6
<1> QED BY <1>1, <1>2, <1>3, RecordingSteps DEF Creates, Reports, Announces

-----------------------------------------------------------------------------
(* The theorems.                                                           *)

(* All of it holds in every state.                                         *)
THEOREM CountInvariant == Spec => []CountInv
<1>1. InventoryInv /\ Init => CountInv
  <2>1. SUFFICES ASSUME InventoryInv, Init
                 PROVE  CountInv
    OBVIOUS
  <2>2. VersionInv /\ PairInv /\ ListInv /\ EntryInv
    BY <2>1 DEF Init, VersionInv, OneVersion, PairInv, Paired, Subdomains, Announcements,
       ListInv, Listed, EntryInv, Recorded, Public!Complete, Public!OnceEach
  <2>3. CopyInv
    <3>1. SUFFICES ASSUME NEW type \in AssetTypes, NEW name \in Names
                   PROVE  CopyOf(type, name)
      BY DEF CopyInv, CopyOf
    <3>2. Ids({}, type, name) = {}
      BY DEF Ids
    <3>3. \A w \in Workers : Fresh(w, type, name) = {}
      BY <2>1, <3>2 DEF Init, Fresh
    <3>4. Holders(type, name) = {} /\ Ids(assets, type, name) = {}
      BY <2>1, <3>2, <3>3 DEF Init, Holders
    <3>5. Cardinality(Workers) \in Nat
      BY InventoryAssumption, FS_CardinalityType DEF InventoryAssumption
    <3>6. Cardinality(Ids(assets, type, name)) + Cardinality(Holders(type, name))
            <= Cardinality(Workers)
      BY <3>4, <3>5, FS_EmptySet
    <3> QED BY <3>3, <3>6 DEF CopyOf
  <2> QED BY <2>1, <2>2, <2>3 DEF CountInv
<1>2. CountInv /\ InventoryInv' /\ [Next]_vars => CountInv'
  <2>1. SUFFICES ASSUME CountInv, InventoryInv', [Next]_vars
                 PROVE  CountInv'
    OBVIOUS
  <2>2. VersionInv' /\ PairInv' /\ ListInv' /\ EntryInv'
    BY <2>1, InventoryAssumption, VersionStep, PairStep, ListStep, EntryStep DEF CountInv
  <2>3. ASSUME NEW type \in AssetTypes, NEW name \in Names
        PROVE  CopyOf(type, name)'
    BY <2>1, InventoryAssumption, CopyStep DEF CountInv, CopyInv, CopyOf
  <2>4. CopyInv'
    BY <2>3 DEF CopyInv, CopyOf
  <2> QED BY <2>1, <2>2, <2>4 DEF CountInv
<1> QED BY <1>1, <1>2, InventoryInvariant, PTL DEF Spec

(* However workers race and fail, a bucket comes with the findings that    *)
(* its probes call for.                                                    *)
THEOREM BucketsAreListed == Spec => []ListingsRecorded
<1>1. CountInv => ListingsRecorded
  BY DEF CountInv, ListInv, Listed, ListingsRecorded
<1> QED BY <1>1, CountInvariant, PTL

(* Every subdomain asset has led to one announcement of its name, whichever*)
(* asset that one names, and nothing else has: their numbers agree.        *)
THEOREM SubdomainsAreAnnounced == Spec => []SubdomainsAnnounced
<1>1. CountInv => SubdomainsAnnounced
  <2>1. SUFFICES ASSUME CountInv, NEW name \in Names
                 PROVE  Cardinality({f \in findings : f.kind = "new_subdomain" /\ f.value = name})
                          = Cardinality({a \in assets : a.type = "subdomain" /\ a.value = name})
    BY DEF SubdomainsAnnounced
  <2> DEFINE F == {f \in findings : f.kind = "new_subdomain" /\ f.value = name}
             A == {a \in assets : a.type = "subdomain" /\ a.value = name}
             pair == [a \in A |-> CHOOSE f \in F : f.id = a.id + 1]
  <2>2. /\ \A a \in A : \E f \in F : f.id = a.id + 1
        /\ \A f \in F : \E a \in A : f.id = a.id + 1
        /\ \A f, g \in F : f.id = g.id => f = g
        /\ \A a, b \in A : a.id = b.id => a = b
    BY <2>1 DEF CountInv, PairInv, Paired, Subdomains, Announcements, VersionInv, OneVersion
  <2>3. \A a \in A : pair[a] \in F /\ pair[a].id = a.id + 1
    BY <2>2
  <2>7. \A a \in A : a.id \in Nat
    BY <2>1 DEF CountInv, InventoryInv, TypeOK, Asset
  <2>4. pair \in Bijection(A, F)
    <3>1. pair \in [A -> F]
      BY <2>3
    <3>2. ASSUME NEW a \in A, NEW b \in A, pair[a] = pair[b] PROVE a = b
      <4>1. pair[a].id = a.id + 1 /\ pair[a].id = b.id + 1
        BY <2>3, <3>2
      <4>2. a.id \in Nat /\ b.id \in Nat
        BY <2>7
      <4>3. a.id = b.id
        <5> HIDE DEF pair, A, F
        <5> QED BY <4>1, <4>2
      <4> QED BY <2>2, <4>3
    <3>3. \A f \in F : \E a \in A : pair[a] = f
      BY <2>2, <2>3
    <3> HIDE DEF pair, A, F
    <3> QED BY <3>1, <3>2, <3>3, Fun_IsBij
  <2>5. IsFiniteSet(A)
    <3> DEFINE id == [a \in A |-> a.id]
    <3>1. id \in Injection(A, 0..MaxSerial)
      <4>1. \A a \in A : a.id \in 0..MaxSerial
        BY <2>1 DEF CountInv, InventoryInv, TypeOK, Asset
      <4> HIDE DEF A, F, pair
      <4>2. id \in [A -> 0..MaxSerial] /\ \A a, b \in A : id[a] = id[b] => a = b
        BY <2>2, <4>1
      <4> HIDE DEF id
      <4> QED BY <4>2, Fun_IsInj
    <3>2. IsFiniteSet(0..MaxSerial)
      BY FS_Interval, InventoryAssumption DEF InventoryAssumption
    <3> QED BY <3>1, <3>2, FS_Injection
  <2> HIDE DEF A, F, pair
  <2>6. Cardinality(F) = Cardinality(A)
    BY <2>4, <2>5, FS_Bijection DEF ExistsBijection
  <2> QED BY <2>6 DEF A, F
<1> QED BY <1>1, CountInvariant, PTL

(* Nothing in the schema keeps workers from recording one asset twice, but *)
(* each of them does so at most once.                                      *)
THEOREM CopiesAreBounded == Spec => []CopiesBounded
<1>1. CountInv => CopiesBounded
  <2>1. SUFFICES ASSUME CountInv, NEW type \in AssetTypes, NEW name \in Names
                 PROVE  Cardinality(Copies(type, name)) <= Cardinality(Workers)
    BY DEF CopiesBounded
  <2>2. TypeOK /\ OneVersion(assets) /\ CopyOf(type, name)
    BY <2>1 DEF CountInv, InventoryInv, VersionInv, CopyInv, CopyOf
  <2>3. /\ IsFiniteSet(Ids(assets, type, name)) /\ Cardinality(Ids(assets, type, name)) \in Nat
        /\ Cardinality(Holders(type, name)) \in Nat /\ Cardinality(Workers) \in Nat
    BY <2>2, CopiesFinite, InventoryAssumption DEF TypeOK
  <2> DEFINE id == [a \in Copies(type, name) |-> a.id]
  <2>4. id \in Injection(Copies(type, name), Ids(assets, type, name))
    <3>1. id \in [Copies(type, name) -> Ids(assets, type, name)]
      BY DEF Copies, Ids
    <3>2. \A a, b \in Copies(type, name) : id[a] = id[b] => a = b
      BY <2>2 DEF Copies, OneVersion
    <3> HIDE DEF id
    <3> QED BY <3>1, <3>2, Fun_IsInj
  <2>5. /\ IsFiniteSet(Copies(type, name))
        /\ Cardinality(Copies(type, name)) <= Cardinality(Ids(assets, type, name))
    BY <2>3, <2>4, FS_Injection
  <2>6. Cardinality(Copies(type, name)) \in Nat
    BY <2>5, FS_CardinalityType
  <2> QED BY <2>2, <2>3, <2>5, <2>6 DEF CopyOf
<1> QED BY <1>1, CountInvariant, PTL

-----------------------------------------------------------------------------
(* The inventory is a register.                                            *)

(* Only the commit of a drain changes what users see, and it enters all    *)
(* that its session has recorded.                                          *)
LEMMA CommitEnters ==
  ASSUME CountInv, NEW w \in Workers, CommitDrain(w)
  PROVE  Public!Enter(dirty[w], raised[w])
<1>1. /\ assets' = dirty[w] \cup {b \in assets : \A a \in dirty[w] : a.id # b.id}
      /\ findings' = findings \cup raised[w]
  BY DEF CommitDrain, Merge
<1>2. ASSUME NEW a \in dirty[w], NEW b \in assets, a.id = b.id
      PROVE  a.type # "subdomain" /\ a.type = b.type /\ a.value = b.value
  <2>1. a.type = b.type /\ a.value = b.value
    BY <1>2 DEF CountInv, InventoryInv, VersionsAgree, Known
  <2> QED BY <1>2, <2>1 DEF CountInv, PairInv, Subdomains
<1>3. Public!Complete(dirty[w], raised[w], assets) /\ Public!OnceEach(dirty[w], raised[w])
  <2>1. Recorded(w) = dirty[w]
    BY DEF CommitDrain, CountInv, InventoryInv, CreatedInv, Recorded
  <2> QED BY <2>1 DEF CountInv, EntryInv
<1> QED BY <1>1, <1>2, <1>3 DEF Public!Enter, Public!Continues

(* However workers race, raise, fail and overwrite what others recorded:   *)
(* users see whole drains, and what they have seen does not go away.       *)
THEOREM InventoryImplementsRegister == Spec => RegisterSpec
<1>1. Init => Public!RegisterInit
  BY DEF Init, Public!RegisterInit
<1>2. CountInv /\ [Next]_vars => [Public!RegisterNext]_(Public!registerVars)
  <2> SUFFICES ASSUME CountInv, [Next]_vars
               PROVE  Public!RegisterNext \/ UNCHANGED Public!registerVars
    OBVIOUS
  <2>1. ASSUME NEW w \in Workers, CommitDrain(w) PROVE Public!RegisterNext
    <3>1. Public!Enter(dirty[w], raised[w])
      BY <2>1, CommitEnters
    <3>2. dirty[w] \in SUBSET assets' /\ raised[w] \in SUBSET findings'
      BY <3>1 DEF Public!Enter
    <3> QED BY <3>1, <3>2 DEF Public!RegisterNext
  <2>2. CASE UNCHANGED <<assets, findings>>
    BY <2>2 DEF Public!registerVars
  <2> QED BY <2>1, <2>2, InventoryAssumption, RecordingSteps
          DEF CountInv, RollbackDrain, Holds, Announces
<1> QED BY <1>1, <1>2, CountInvariant, PTL DEF Spec, RegisterSpec, Public!RegisterSpec
-----------------------------------------------------------------------------
(* The tables as a whole.                                                  *)

(* What may enter a register that is complete leaves it complete.          *)
LEMMA EnterKeepsComplete ==
  ASSUME NEW A, NEW F, \A a \in A \cup assets : a.type \in AssetTypes,
         Public!Complete(assets, findings, {}), Public!Enter(A, F)
  PROVE  Public!Complete(assets', findings', {})
<1> DEFINE kept == {b \in assets : \A a \in A : a.id # b.id}
<1>1. assets' = A \cup kept /\ findings' = findings \cup F
  BY DEF Public!Enter
<1>2. Public!Complete(A, F, assets)
  BY DEF Public!Enter
<1>3. \A a \in assets' : Public!Denied(a) \/ \E f \in findings' : Public!Tells(f, a)
  BY <1>1, <1>2 DEF Public!Complete
(* An asset that is replaced is still there in its new version.            *)
<1>4. ASSUME NEW b \in assets, b \notin kept
      PROVE  \E a \in A : /\ a.id = b.id /\ a.type = b.type /\ a.value = b.value
                         /\ a.type # "subdomain"
  BY <1>4 DEF Public!Enter, Public!Continues
<1>5. ASSUME NEW f, NEW b \in assets, Public!Tells(f, b)
      PROVE  \E a \in assets' : Public!Tells(f, a)
  <2>1. CASE b \in kept
    BY <1>1, <1>5, <2>1
  <2>2. ASSUME NEW a \in A, a.id = b.id, a.type = b.type, a.value = b.value, a.type # "subdomain"
        PROVE  a \in assets' /\ Public!Tells(f, a)
    BY <1>1, <1>5, <2>2 DEF Public!Tells
  <2> QED BY <1>4, <2>1, <2>2
<1>6. ASSUME NEW f, NEW b \in assets, Public!NamesAsset(f, b)
      PROVE  \E a \in assets' : Public!NamesAsset(f, a)
  <2>1. CASE b \in kept
    BY <1>1, <1>6, <2>1
  <2>2. ASSUME NEW a \in A, a.id = b.id, a.type = b.type, a.value = b.value
        PROVE  a \in assets' /\ Public!NamesAsset(f, a)
    BY <1>1, <1>6, <2>2 DEF Public!NamesAsset
  <2> QED BY <1>4, <2>1, <2>2
<1>7. ASSUME NEW f \in findings'
      PROVE  /\ \E a \in assets' : Public!Tells(f, a)
             /\ \E a \in assets' : Public!NamesAsset(f, a)
  <2>1. CASE f \in findings
    BY <1>5, <1>6, <2>1 DEF Public!Complete
  <2>2. CASE f \in F
    <3>1. \E a \in assets' : Public!Tells(f, a)
      BY <1>1, <1>2, <2>2 DEF Public!Complete
    <3>2. PICK b \in A \cup assets : Public!NamesAsset(f, b)
      BY <1>2, <2>2 DEF Public!Complete
    <3> QED BY <1>1, <1>6, <3>1, <3>2
  <2> QED BY <1>1, <2>1, <2>2
<1>8. \A a, b \in assets' : a.id = b.id => a = b
  BY <1>1, <1>2 DEF Public!Complete
<1> QED BY <1>3, <1>7, <1>8 DEF Public!Complete

(* In the tables as a whole, after any number of drains and races: each    *)
(* asset is told of by a finding or is a bucket that denies its listing,   *)
(* where a subdomain is told of by its name; each finding names an asset   *)
(* of its kind and value as it is now, and an asset has one version.       *)
THEOREM RegisterIsComplete == Spec => []Public!Complete(assets, findings, {})
<1>1. Init => Public!Complete(assets, findings, {})
  BY DEF Init, Public!Complete
<1>2. CountInv /\ Public!Complete(assets, findings, {}) /\ [Next]_vars
        => Public!Complete(assets, findings, {})'
  <2> SUFFICES ASSUME CountInv, Public!Complete(assets, findings, {}), [Next]_vars
               PROVE  Public!Complete(assets', findings', {})
    BY DEF Public!Complete, Public!Tells, Public!NamesAsset, Public!Denied
  <2>1. ASSUME NEW w \in Workers, CommitDrain(w) PROVE Public!Complete(assets', findings', {})
    <3>1. \A a \in dirty[w] \cup assets : a.type \in AssetTypes
      BY DEF CountInv, InventoryInv, TypeOK, Asset
    <3> QED BY <2>1, <3>1, CommitEnters, EnterKeepsComplete
  <2>2. CASE UNCHANGED <<assets, findings>>
    BY <2>2
  <2> QED BY <2>1, <2>2, InventoryAssumption, RecordingSteps
          DEF CountInv, RollbackDrain, Holds, Announces
<1> QED BY <1>1, <1>2, CountInvariant, PTL DEF Spec

(* With one worker a subdomain has one asset, so the second query finds no *)
(* other: its announcement names that very asset.                          *)
THEOREM SingleWorkerNames ==
  ASSUME NEW w, Workers = {w}
  PROVE  Spec => [](\A a \in Subdomains(assets) : \E f \in Announcements(findings) :
                      Public!NamesAsset(f, a))
<1>1. TypeOK /\ OneAssetPerValue /\ Public!Complete(assets, findings, {})
        => \A a \in Subdomains(assets) : \E f \in Announcements(findings) :
             Public!NamesAsset(f, a)
  <2>1. SUFFICES ASSUME TypeOK, OneAssetPerValue, Public!Complete(assets, findings, {}),
                        NEW a \in Subdomains(assets)
                 PROVE  \E f \in Announcements(findings) : Public!NamesAsset(f, a)
    OBVIOUS
  <2>2. a \in assets /\ a.type = "subdomain"
    BY DEF Subdomains
  <2>3. PICK f \in findings : Public!Tells(f, a)
    BY <2>1, <2>2 DEF Public!Complete, Public!Denied
  <2>4. f.kind = "new_subdomain" /\ f.value = a.value
    BY <2>2, <2>3 DEF Public!Tells, Public!KindOf
  <2>5. PICK b \in assets : Public!NamesAsset(f, b)
    BY <2>1 DEF Public!Complete
  <2>6. b.type \in AssetTypes
    BY <2>1 DEF TypeOK, Asset
  <2>7. b.type = a.type /\ b.value = a.value
    BY <2>2, <2>4, <2>5, <2>6 DEF Public!NamesAsset, Public!KindOf, AssetTypes
  <2>8. b = a
    BY <2>1, <2>2, <2>7 DEF OneAssetPerValue
  <2> QED BY <2>4, <2>5, <2>8 DEF Announcements
<1> QED BY <1>1, TypeCorrect, SingleWorkerUnique, RegisterIsComplete, PTL
=============================================================================
