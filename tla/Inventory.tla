----------------------------- MODULE Inventory -----------------------------
(***************************************************************************)
(* The inventory of one organization: the assets and findings that the     *)
(* subdomain, TLS and bucket passes of its scans record through            *)
(* finding_service.  A pass works through what its probes returned; an     *)
(* asset is looked up by organization, type and value before it is         *)
(* created, without a unique constraint.  Each worker drains the queue in  *)
(* a session of its own; create_scheduler runs one per process.  The DNS   *)
(* pass is in DnsDrift, the queue in ScanQueue.                            *)
(***************************************************************************)
EXTENDS Naturals, FiniteSets

CONSTANTS
  Workers,       \* drain jobs, one per process of the backend
  Names,         \* hostnames below the registered domain, and bucket names
  Apex,          \* the registered domain itself, which certificates may name too
  MaxSerial      \* bound: rows ever created

ASSUME InventoryAssumption ==
  IsFiniteSet(Workers) /\ Apex \in Names /\ MaxSerial \in Nat

VARIABLES
  assets,        \* committed rows of assets
  findings,      \* committed rows of findings
  open,          \* the workers whose session is open
  dirty,         \* per session: assets it created or updated
  raised,        \* per session: findings it added
  pass,          \* per session: the pass that runs, or "none"
  todo,          \* per session: the names the pass still has to record
  created,       \* per session: the subdomain it has created and not announced yet
  serial         \* rows created so far, also by transactions that failed

sessions == <<open, dirty, raised, pass, todo, created>>
vars == <<assets, findings, sessions, serial>>

PassTypes == {"subdomain", "tls", "bucket"}

Init ==
  /\ assets = {} /\ findings = {}
  /\ open = {}
  /\ dirty = [w \in Workers |-> {}]
  /\ raised = [w \in Workers |-> {}]
  /\ pass = [w \in Workers |-> "none"]
  /\ todo = [w \in Workers |-> {}]
  /\ created = [w \in Workers |-> {}]
  /\ serial = 0

-----------------------------------------------------------------------------
(* A session and its queries.                                              *)

(* Replace the rows of A by their newer versions in B.                     *)
Merge(A, B) == B \cup {a \in A : \A b \in B : b.id # a.id}

(* What a query of w for an asset returns: every new asset is flushed when *)
(* it is created, so all of the session and all that is committed.         *)
Lookup(w, type, name) ==
  {a \in Merge(assets, dirty[w]) : a.type = type /\ a.value = name}

(* The note is the one of record_bucket_inventory_only in metadata_json;   *)
(* probe is history, what the last probe saw that recorded the asset.      *)
NewAsset(type, name) ==
  [id |-> serial, type |-> type, value |-> name, note |-> "none", probe |-> "seen"]

(* get_or_create_asset: one of the assets found (LIMIT 1, in no order), or *)
(* a new one.                                                              *)
GetOrCreate(w, type, name) ==
  IF Lookup(w, type, name) = {} THEN {NewAsset(type, name)} ELSE Lookup(w, type, name)

(* The session flushes or holds asset a, and adds finding n about it.      *)
Save(w, a) == dirty' = [dirty EXCEPT ![w] = Merge(@, {a})]
Raise(w, n, kind, a) ==
  raised' = [raised EXCEPT ![w] =
    @ \cup {[id |-> n, kind |-> kind, asset |-> a.id, value |-> a.value]}]
AddFinding(w, kind, a) == Raise(w, serial + 1, kind, a)

TakeSerials == serial + 2 <= MaxSerial /\ serial' = serial + 2

(* The pass of type p has announced what it created, and takes up name.    *)
Take(w, p, name) ==
  /\ pass[w] = p /\ created[w] = {} /\ name \in todo[w]
  /\ todo' = [todo EXCEPT ![w] = @ \ {name}]
  /\ UNCHANGED <<assets, findings, open, pass>>

(* It is done with it in the same step.                                    *)
Done(w, p, name) == Take(w, p, name) /\ UNCHANGED created

-----------------------------------------------------------------------------
(* The passes.                                                             *)

BeginDrain(w) ==
  /\ w \notin open
  /\ open' = open \cup {w}
  /\ UNCHANGED <<assets, findings, dirty, raised, pass, todo, created, serial>>

(* A pass has its results: subdomains named in certificates, hosts to      *)
(* handshake with, or provider:bucket keys to probe, each of them once.    *)
(* Which passes a scan has, and in which order, is left open.              *)
BeginPass(w, p) ==
  /\ w \in open /\ pass[w] = "none"
  /\ pass' = [pass EXCEPT ![w] = p]
  /\ \E N \in SUBSET Names \ {{}} : todo' = [todo EXCEPT ![w] = N]
  /\ UNCHANGED <<assets, findings, open, dirty, raised, created, serial>>

(* A name that adds nothing: the registered domain or a subdomain that is  *)
(* in the inventory; a host that is unsafe, does not answer or has a sound *)
(* certificate; a bucket that answers neither 200 with a listing nor 403.  *)
PassOver(w, name) ==
  /\ \E p \in PassTypes : Done(w, p, name)
  /\ pass[w] = "subdomain" => name = Apex \/ Lookup(w, "subdomain", name) # {}
  /\ UNCHANGED <<dirty, raised, serial>>

\* Mutant of CreateSubdomain: what the session itself has created is not seen.
CreateSubdomainBlindly(w, name) ==
  /\ Take(w, "subdomain", name)
  /\ name # Apex /\ ~\E a \in assets : a.type = "subdomain" /\ a.value = name
  /\ TakeSerials
  /\ Save(w, NewAsset("subdomain", name))
  /\ created' = [created EXCEPT ![w] = {NewAsset("subdomain", name)}]
  /\ UNCHANGED raised

(* A subdomain that is not in the inventory gets an asset.                 *)
CreateSubdomain(w, name) ==
  /\ Take(w, "subdomain", name)
  /\ name # Apex /\ Lookup(w, "subdomain", name) = {}
  /\ TakeSerials
  /\ Save(w, NewAsset("subdomain", name))
  /\ created' = [created EXCEPT ![w] = {NewAsset("subdomain", name)}]
  /\ UNCHANGED raised

\* Mutant of AnnounceSubdomain: the finding is forgotten.
AnnounceSubdomainSilently(w) ==
  /\ created[w] # {}
  /\ created' = [created EXCEPT ![w] = {}]
  /\ UNCHANGED <<assets, findings, open, dirty, raised, pass, todo, serial>>

(* Then it is announced: new_subdomain_finding queries for the asset once  *)
(* more, LIMIT 1 in no order, and the finding names whichever it gets, the *)
(* session's own or one that another worker has committed meanwhile.  What *)
(* it updates in that asset, its last_seen_at and source, is left out.     *)
AnnounceSubdomain(w) ==
  /\ \E own \in created[w] : \E a \in Lookup(w, "subdomain", own.value) :
       Raise(w, own.id + 1, "new_subdomain", a)
  /\ created' = [created EXCEPT ![w] = {}]
  /\ UNCHANGED <<assets, findings, open, dirty, pass, todo, serial>>

\* Mutant of RecordCertificate: the asset gets the type of the pass.
RecordCertificateUntyped(w, name) ==
  /\ Done(w, "tls", name)
  /\ TakeSerials
  /\ \E a \in GetOrCreate(w, "tls", name) :
       Save(w, a) /\ AddFinding(w, "tls", a)

(* An expired, expiring or self-signed certificate: a finding every time.  *)
RecordCertificate(w, name) ==
  /\ Done(w, "tls", name)
  /\ TakeSerials
  /\ \E a \in GetOrCreate(w, "tls_endpoint", name) :
       Save(w, a) /\ AddFinding(w, "tls", a)

\* Mutant of RecordListing: a finding only if the bucket is new.
RecordListingOnce(w, name) ==
  /\ Done(w, "bucket", name)
  /\ TakeSerials
  /\ \E a \in GetOrCreate(w, "bucket", name) :
       /\ Save(w, [a EXCEPT !.probe = "listing"])
       /\ IF Lookup(w, "bucket", name) = {} THEN AddFinding(w, "bucket_listing", a)
          ELSE UNCHANGED raised

(* A bucket that lists its objects: a finding every time.  The metadata of *)
(* an asset that exists is merged, so its note stays.                      *)
RecordListing(w, name) ==
  /\ Done(w, "bucket", name)
  /\ TakeSerials
  /\ \E a \in GetOrCreate(w, "bucket", name) :
       Save(w, [a EXCEPT !.probe = "listing"]) /\ AddFinding(w, "bucket_listing", a)

(* A bucket that answers 403: inventory only, with a note.                 *)
RecordDenied(w, name) ==
  /\ Done(w, "bucket", name)
  /\ TakeSerials
  /\ \E a \in GetOrCreate(w, "bucket", name) :
       Save(w, [a EXCEPT !.note = "without_public_listing", !.probe = "denied"])
  /\ UNCHANGED raised

(* The pass is through its names, or it raises and the scan has failed:    *)
(* what it recorded stays in the session.  Between an asset and its        *)
(* announcement only the database could fail, and the transaction with it. *)
EndPass(w) ==
  /\ pass[w] # "none" /\ created[w] = {}
  /\ pass' = [pass EXCEPT ![w] = "none"]
  /\ todo' = [todo EXCEPT ![w] = {}]
  /\ UNCHANGED <<assets, findings, open, dirty, raised, created, serial>>

Close(w) ==
  /\ open' = open \ {w}
  /\ dirty' = [dirty EXCEPT ![w] = {}]
  /\ raised' = [raised EXCEPT ![w] = {}]
  /\ pass' = [pass EXCEPT ![w] = "none"]
  /\ todo' = [todo EXCEPT ![w] = {}]
  /\ created' = [created EXCEPT ![w] = {}]
  /\ UNCHANGED serial

\* Mutant of CommitDrain: a finding replaces the older ones of its kind and asset.
CommitDrainReplacing(w) ==
  /\ w \in open /\ pass[w] = "none"
  /\ assets' = Merge(assets, dirty[w])
  /\ findings' = raised[w] \cup
       {f \in findings : \A g \in raised[w] : g.asset # f.asset \/ g.kind # f.kind}
  /\ Close(w)

(* The drain's transaction commits.                                        *)
CommitDrain(w) ==
  /\ w \in open /\ pass[w] = "none"
  /\ assets' = Merge(assets, dirty[w])
  /\ findings' = findings \cup raised[w]
  /\ Close(w)

\* Mutant of RollbackDrain: findings survive the transaction of their assets.
RollbackDrainKeepingFindings(w) ==
  /\ w \in open
  /\ findings' = findings \cup raised[w]
  /\ Close(w)
  /\ UNCHANGED assets

(* The transaction fails, or the process dies.                             *)
RollbackDrain(w) ==
  /\ w \in open
  /\ Close(w)
  /\ UNCHANGED <<assets, findings>>

Next ==
  \E w \in Workers :
    \/ BeginDrain(w)
    \/ \E p \in PassTypes : BeginPass(w, p)
    \/ \E name \in Names :
         \/ PassOver(w, name)
         \/ CreateSubdomain(w, name)
         \/ RecordCertificate(w, name)
         \/ RecordListing(w, name)
         \/ RecordDenied(w, name)
    \/ AnnounceSubdomain(w)
    \/ EndPass(w)
    \/ CommitDrain(w)
    \/ RollbackDrain(w)

Spec == Init /\ [][Next]_vars

-----------------------------------------------------------------------------
(* Properties.                                                             *)

AssetTypes == {"subdomain", "tls_endpoint", "bucket"}
Asset == [id : 0..MaxSerial, type : AssetTypes, value : Names,
          note : {"none", "without_public_listing"}, probe : {"seen", "listing", "denied"}]
Finding == [id : 0..MaxSerial, kind : {"new_subdomain", "tls", "bucket_listing"},
            asset : 0..MaxSerial, value : Names]

(* The type of every variable.                                             *)
TypeOK ==
  /\ assets \subseteq Asset /\ findings \subseteq Finding
  /\ open \subseteq Workers
  /\ dirty \in [Workers -> SUBSET Asset] /\ raised \in [Workers -> SUBSET Finding]
  /\ pass \in [Workers -> PassTypes \cup {"none"}]
  /\ todo \in [Workers -> SUBSET Names] /\ created \in [Workers -> SUBSET Asset]
  /\ serial \in 0..MaxSerial

(* get_or_create_asset looks before it inserts, and nothing in the schema  *)
(* keeps two sessions from inserting the same asset; but a worker inserts  *)
(* an asset only as long as none is committed, and once per session, so    *)
(* there are at most as many copies of an asset as there are workers.      *)
Copies(type, name) == {a \in assets : a.type = type /\ a.value = name}

CopiesBounded ==
  \A type \in AssetTypes, name \in Names :
    Cardinality(Copies(type, name)) <= Cardinality(Workers)

(* With one worker there is one asset per type and value.                  *)
OneAssetPerValue ==
  \A a, b \in assets : a.type = b.type /\ a.value = b.value => a = b

(* For every asset that a new subdomain gets there is one announcement of  *)
(* its name, even with workers that race, passes that raise and drains     *)
(* that fail: the counts of the committed assets and findings agree.  Only *)
(* the counts do: an announcement may name another worker's copy, so that  *)
(* one asset has two of them and another has none that points to it.       *)
SubdomainsAnnounced ==
  \A name \in Names :
    Cardinality({f \in findings : f.kind = "new_subdomain" /\ f.value = name})
      = Cardinality({a \in assets : a.type = "subdomain" /\ a.value = name})

(* A finding that users can see has its asset in the inventory, whichever  *)
(* transaction created that asset.                                         *)
FindingsHaveAssets ==
  \A f \in findings : \E a \in assets : a.id = f.asset /\ a.value = f.value

(* A bucket is in the inventory for a reason that users can see: it has    *)
(* the note of a 403, or a listing finding; and a bucket that listed its   *)
(* objects when it was last seen has such a finding, also if it was in the *)
(* inventory before, and whichever drains failed.                          *)
ListingsRecorded ==
  \A a \in assets :
    a.type = "bucket" =>
      /\ a.probe = "listing" => \E f \in findings : f.kind = "bucket_listing" /\ f.asset = a.id
      /\ a.note = "none" => a.probe = "listing"

(* Refinement: the committed assets and findings are a Register, however   *)
(* the sessions of workers overlap, raise, fail and lose to one another.   *)
Public == INSTANCE Register
RegisterSpec == Public!RegisterSpec

(* What the note of record_bucket_inventory_only says: a candidate that    *)
(* was observed without a public listing.                                  *)
NoteIsCurrent ==
  \A a \in assets : a.note = "without_public_listing" => a.probe = "denied"
=============================================================================
