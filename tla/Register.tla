------------------------------ MODULE Register ------------------------------
(***************************************************************************)
(* What the inventory promises to whoever reads assets and findings, with  *)
(* no worker, session or pass in sight: a drain enters what it recorded in *)
(* one step and for good; nothing is entered without a finding that tells  *)
(* of it but a bucket that denies its listing, and no finding without its  *)
(* asset.  Drains may overlap, so a subdomain may have several assets and  *)
(* findings.  Inventory implements this register.                          *)
(***************************************************************************)
EXTENDS Naturals

VARIABLES
  assets,        \* rows of assets, each in its latest version
  findings       \* rows of findings

registerVars == <<assets, findings>>

KindOf == [subdomain |-> "new_subdomain", tls_endpoint |-> "tls", bucket |-> "bucket_listing"]

(* The finding f is of the kind that a calls for.  A subdomain is told of  *)
(* by its name, which several assets may have; other assets by themselves. *)
Tells(f, a) ==
  /\ f.kind = KindOf[a.type] /\ f.value = a.value
  /\ a.type # "subdomain" => f.asset = a.id

(* It names a as its asset.                                                *)
NamesAsset(f, a) == f.kind = KindOf[a.type] /\ f.value = a.value /\ f.asset = a.id

Denied(a) == a.type = "bucket" /\ a.probe = "denied"

(* The assets A with their findings F, one version of each asset.  What a  *)
(* finding names is among them or in K.                                    *)
Complete(A, F, K) ==
  /\ \A a \in A : Denied(a) \/ \E f \in F : Tells(f, a)
  /\ \A f \in F : (\E a \in A : Tells(f, a)) /\ (\E a \in A \cup K : NamesAsset(f, a))
  /\ \A a, b \in A : a.id = b.id => a = b

(* A drain finds a subdomain once and announces it once.                   *)
OnceEach(A, F) ==
  /\ \A a, b \in A : a.type = "subdomain" /\ b.type = "subdomain" /\ a.value = b.value => a = b
  /\ \A f, g \in F :
       f.kind = "new_subdomain" /\ g.kind = "new_subdomain" /\ f.value = g.value => f = g

(* Versions of one asset never differ in what it is, and a subdomain has   *)
(* one version only: the drain that finds it enters it.                    *)
Continues(A) ==
  \A a \in A, b \in assets :
    a.id = b.id => a.type # "subdomain" /\ a.type = b.type /\ a.value = b.value

RegisterInit == assets = {} /\ findings = {}

(* A drain enters A and F.  A subdomain that it found may have come in     *)
(* from another drain since, and its finding may name that asset.          *)
Enter(A, F) ==
  /\ Complete(A, F, assets) /\ OnceEach(A, F) /\ Continues(A)
  /\ assets' = A \cup {b \in assets : \A a \in A : a.id # b.id}
  /\ findings' = findings \cup F

RegisterNext == \E A \in SUBSET assets', F \in SUBSET findings' : Enter(A, F)

RegisterSpec == RegisterInit /\ [][RegisterNext]_registerVars
=============================================================================
