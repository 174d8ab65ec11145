-------------------------- MODULE ContentRegistry --------------------------
(***************************************************************************)
(* packages/contracts/src/ContentRegistry.sol: who owns which manifest.    *)
(* Anyone may submit a registration; what authorises it is an EIP-712      *)
(* signature of the owner over all its fields, the chain id and the        *)
(* owner's nonce.  A signature is abstracted to what it commits to, and    *)
(* `signed` is the set of those that exist: once made it can be submitted  *)
(* at any time, by anyone, any number of times.                            *)
(***************************************************************************)
EXTENDS EvmBlocks, FiniteSets

CONSTANTS
  Cid,           \* manifest CIDs other than bytes32(0)
  ZeroCid,       \* bytes32(0), "no parent"
  Flags,         \* policyFlags values
  Reserved,      \* those with RESERVED_POLICY_BIT set
  MaxSigned      \* bound: signatures in existence

ASSUME CidAssumption ==
  /\ IsFiniteSet(Cid)
  /\ ZeroCid \notin Cid
  /\ Reserved \subseteq Flags
  /\ MaxSigned \in Nat

VARIABLES
  records,       \* _records
  nonces,        \* _nonces
  signed,        \* signatures that exist
  consumed       \* history: per registered CID the authorisation it used

registryVars == <<records, nonces, signed, consumed>>

\* The default record: _records[cid].owner == address(0).
NoRecord == [owner |-> ZeroAddress, timestamp |-> 0, policyFlags |-> 0, parentCid |-> ZeroCid]

Record ==
  [owner : Address, timestamp : Nat, policyFlags : Flags \ Reserved,
   parentCid : Cid \cup {ZeroCid}]

Authorisation ==
  [owner : Address, manifestCid : Cid \cup {ZeroCid}, parentCid : Cid \cup {ZeroCid},
   policyFlags : Flags, chain : ChainId, nonce : Nat]

RegistryInit ==
  /\ records = [c \in Cid |-> NoRecord]
  /\ nonces = [o \in Address |-> 0]
  /\ signed = {}
  /\ consumed = [c \in Cid |-> {}]

IsRegistered(cid) == cid \in Cid /\ records[cid].owner # ZeroAddress

OwnerOf(cid) == records[cid].owner

\* hashRegisterContent: what the signature commits to, with the current chain
\* id and the current nonce of the owner.
Digest(owner, manifestCid, parentCid, policyFlags) ==
  [owner |-> owner, manifestCid |-> manifestCid, parentCid |-> parentCid,
   policyFlags |-> policyFlags, chain |-> chainid, nonce |-> nonces[owner]]

----------------------------------------------------------------------------
\* A client reads the digest and its owner signs it.
SignRegistration(owner, manifestCid, parentCid, policyFlags) ==
  /\ Cardinality(signed) < MaxSigned
  /\ signed' = signed \cup {Digest(owner, manifestCid, parentCid, policyFlags)}
  /\ UNCHANGED <<records, nonces, consumed>>

\* A variant of the shape checks that does not look for an earlier record.
ShapeOKOverwriting(owner, manifestCid, parentCid, policyFlags) ==
  /\ owner # ZeroAddress
  /\ manifestCid # ZeroCid
  /\ parentCid # manifestCid
  /\ policyFlags \notin Reserved
  /\ parentCid # ZeroCid => IsRegistered(parentCid)

\* A variant of the shape checks that lets any CID be a parent.
ShapeOKAnyParent(owner, manifestCid, parentCid, policyFlags) ==
  /\ owner # ZeroAddress
  /\ manifestCid # ZeroCid
  /\ policyFlags \notin Reserved
  /\ ~ IsRegistered(manifestCid)

\* A variant of the shape checks that lets creators set the reserved bit.
ShapeOKAnyFlag(owner, manifestCid, parentCid, policyFlags) ==
  /\ owner # ZeroAddress
  /\ manifestCid # ZeroCid
  /\ parentCid # manifestCid
  /\ ~ IsRegistered(manifestCid)
  /\ parentCid # ZeroCid => IsRegistered(parentCid)

\* The checks registerContent makes before it looks at the signature.
ShapeOK(owner, manifestCid, parentCid, policyFlags) ==
  /\ owner # ZeroAddress
  /\ manifestCid # ZeroCid
  /\ parentCid # manifestCid
  /\ policyFlags \notin Reserved
  /\ ~ IsRegistered(manifestCid)
  /\ parentCid # ZeroCid => IsRegistered(parentCid)

\* A variant of registerContent that does not consume the nonce.
RegisterContentKeepingNonce(owner, manifestCid, parentCid, policyFlags) ==
  /\ ShapeOK(owner, manifestCid, parentCid, policyFlags)
  /\ Digest(owner, manifestCid, parentCid, policyFlags) \in signed
  /\ records' = [records EXCEPT ![manifestCid] =
       [owner |-> owner, timestamp |-> timestamp,
        policyFlags |-> policyFlags, parentCid |-> parentCid]]
  /\ consumed' = [consumed EXCEPT ![manifestCid] =
       @ \cup {Digest(owner, manifestCid, parentCid, policyFlags)}]
  /\ UNCHANGED <<nonces, signed>>

\* registerContent: shape checks, signature check, nonce, record.
RegisterContent(owner, manifestCid, parentCid, policyFlags) ==
  /\ ShapeOK(owner, manifestCid, parentCid, policyFlags)
  /\ Digest(owner, manifestCid, parentCid, policyFlags) \in signed
  /\ nonces' = [nonces EXCEPT ![owner] = @ + 1]
  /\ records' = [records EXCEPT ![manifestCid] =
       [owner |-> owner, timestamp |-> timestamp,
        policyFlags |-> policyFlags, parentCid |-> parentCid]]
  /\ consumed' = [consumed EXCEPT ![manifestCid] =
       @ \cup {Digest(owner, manifestCid, parentCid, policyFlags)}]
  /\ UNCHANGED signed

----------------------------------------------------------------------------
Registrations ==
  \/ \E o \in Address, c \in Cid \cup {ZeroCid}, p \in Cid \cup {ZeroCid}, f \in Flags :
       SignRegistration(o, c, p, f)
  \/ \E o \in Address \cup {ZeroAddress}, c \in Cid \cup {ZeroCid},
        p \in Cid \cup {ZeroCid}, f \in Flags :
       RegisterContent(o, c, p, f)

RegistryNext ==
  \/ Registrations /\ UNCHANGED blockVars
  \/ (NextBlock \/ Fork) /\ UNCHANGED registryVars

Deployed == BlocksInit /\ RegistryInit

RegistrySpec == Deployed /\ [][RegistryNext]_<<blockVars, registryVars>>

----------------------------------------------------------------------------
(***************************************************************************)
(* Properties                                                              *)
(***************************************************************************)
Registered == {c \in Cid : IsRegistered(c)}

\* Every record is the default or has an owner, no reserved flag and no parent
\* that is not a CID.
RegistryTypeOK ==
  /\ records \in [Cid -> Record \cup {NoRecord}]
  /\ nonces \in [Address -> Nat]
  /\ signed \subseteq Authorisation
  /\ consumed \in [Cid -> SUBSET Authorisation]

\* Header invariants 4 and 5, together: following parents always ends.  In any
\* set of registered manifests some member's parent lies outside the set, so
\* clips never form a cycle however registrations are ordered.
ParentsWellFounded ==
  /\ \A c \in Registered :
       records[c].parentCid # ZeroCid => records[c].parentCid \in Registered
  /\ \A S \in SUBSET Registered :
       S # {} => \E c \in S : records[c].parentCid \notin S

\* "the signature commits to `owner`; any tampering invalidates the signature":
\* whoever submitted it, a record says what its owner signed, by one signature.
RegisteredAsSigned ==
  \A c \in Registered : \E a \in consumed[c] :
    /\ consumed[c] = {a}
    /\ a \in signed
    /\ a.owner = records[c].owner
    /\ a.manifestCid = c
    /\ a.parentCid = records[c].parentCid
    /\ a.policyFlags = records[c].policyFlags

\* "nonce consumed exactly once per registration": no two records rest on the
\* same owner and nonce, on any chain id, and every consumed nonce is behind
\* the owner's counter, so a signature over it can never be used again.
NoncesUsedOnce ==
  \A c, d \in Cid : \A a \in consumed[c], b \in consumed[d] :
    /\ a.nonce < nonces[a.owner]
    /\ a.owner = b.owner /\ a.nonce = b.nonce => a = b

\* Header invariants 1 and 2: a record, once written, never changes.
RecordsFinal ==
  [][\A c \in Registered : records'[c] = records[c]]_<<blockVars, registryVars>>

\* A record is what its owner signed, the signature was good for this record
\* only, whoever submitted it and on whichever chain, and its line of parents
\* ends (ContentRegistry.sol:155-205).
RecordsSound ==
  RegistryTypeOK /\ RegisteredAsSigned /\ NoncesUsedOnce /\ ParentsWellFounded
============================================================================
