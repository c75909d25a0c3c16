----------------------------- MODULE EvidenceVault -----------------------------
(* The operator-private evidence vault (evidence/store.py): text objects named   *)
(* by their digest, and one manifest per accepted source run that names the      *)
(* objects the run read.  `kosha evidence verify` (evidence/verify.py) reads the *)
(* vault back against the Source-Run trailers of the bundle's commits.           *)
(* A digest is modelled as the text it names, a manifest as the set of its       *)
(* digests; both files are written through a temporary file and one rename.      *)
EXTENDS Integers, Sequences, FiniteSets

CONSTANTS
    Texts,      \* the normalised texts a source can yield
    Runs        \* identifiers of source runs

VARIABLES
    objects,    \* text -> "intact" or "corrupt", for the digests that have a file
    manifests   \* run -> the digests its manifest names, for the runs that have one

vaultVars == <<objects, manifests>>

VaultTypeOK ==
    /\ DOMAIN objects \subseteq Texts
    /\ \A d \in DOMAIN objects : objects[d] \in {"intact", "corrupt"}
    /\ DOMAIN manifests \subseteq Runs
    /\ \A r \in DOMAIN manifests : manifests[r] \subseteq Texts

VaultInit == objects = <<>> /\ manifests = <<>>

Extend(f, k, v) == [x \in DOMAIN f \cup {k} |-> IF x = k THEN v ELSE f[x]]
--------------------------------------------------------------------------------
has_object(d) == d \in DOMAIN objects
readable(d) == has_object(d) /\ objects[d] = "intact"

\* An object that is there with other bytes than its digest's is a conflict.
Conflicts(d) == has_object(d) /\ objects[d] = "corrupt"

\* Writing a text twice changes nothing; one whose file was lost comes back.
put_object(d) ==
    /\ ~Conflicts(d)
    /\ objects' = IF has_object(d) THEN objects ELSE Extend(objects, d, "intact")
    /\ UNCHANGED manifests

\* The manifest only ever follows its objects, and needs them to exist, not to be sound.
HasObjects(ds) == \A d \in ds : has_object(d)
write_run(r, ds) ==
    /\ HasObjects(ds)
    /\ manifests' = Extend(manifests, r, ds)
    /\ UNCHANGED objects

read_run(r) == r \in DOMAIN manifests /\ HasObjects(manifests[r])

\* Between two operations the disk may lose an object, or damage its bytes.
LoseObject(d) ==
    /\ has_object(d)
    /\ objects' = [x \in DOMAIN objects \ {d} |-> objects[x]]
    /\ UNCHANGED manifests

DamageObject(d) ==
    /\ readable(d)
    /\ objects' = [objects EXCEPT ![d] = "corrupt"]
    /\ UNCHANGED manifests
--------------------------------------------------------------------------------
verify_run(r) == read_run(r) /\ \A d \in manifests[r] : readable(d)

\* A commit with a trailer: its run's manifest must name every digest it cites.
verify_commit(r, cited) ==
    /\ read_run(r)
    /\ cited \subseteq manifests[r]
    /\ \A d \in cited : readable(d)

\* trailers: run -> the digests the commit of that run cites.
verify_evidence(trailers) ==
    /\ \A r \in DOMAIN manifests : verify_run(r)
    /\ \A r \in DOMAIN trailers : verify_commit(r, trailers[r])

\* Replay rebuilds the run's documents from stored bytes alone, or refuses.
replay_run(r) == IF verify_run(r) THEN manifests[r] ELSE {}
================================================================================
