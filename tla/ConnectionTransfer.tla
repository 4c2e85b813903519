------------------------- MODULE ConnectionTransfer -------------------------
(***************************************************************************)
(* Saved connections to a file and back: lib/connection-import.ts and      *)
(* ConnectionImportDialog.tsx of the desktop, with the two lists of the    *)
(* application that it reads and refreshes.  A file is read, and the       *)
(* backend called, while the user goes on; what a handler reads of its     *)
(* render is what it had when it began.                                    *)
(***************************************************************************)
EXTENDS Naturals, Sequences, FiniteSets, Functions

CONSTANTS
  Refs,         \* ids of entries in files
  Own,          \* sets of connections that may be saved at the start
  OwnGroups,    \* the names of the groups at the start
  Lower,        \* the name of each folder in lower case
  Theirs,       \* files of another computer or of DBeaver
  CredentialFiles, \* their contents: a user, or None, for each of Refs
  MaxSaved,     \* bound: connections
  MaxImports,   \* bound: imports
  MaxFailures,  \* bound: calls that fail
  MaxReads,     \* bound: files that are chosen
  MaxToggles,   \* bound: boxes that are not as the dialog checked them
  None

NoUser == "no user"

VARIABLES
  saved,       \* connections of the backend, in order
  groups,      \* names of its groups; a group is known by its place here
  listed,      \* the connections that the application shows
  listedGroups,
  source,      \* "omni-sql" or "dbeaver"
  text,        \* the DBeaver file chosen last
  credentials, \* and the credentials
  candidates,  \* what can be imported, or None
  selected,    \* the checked ones
  reading,     \* a file that is being read, with the render that asked for it
  decrypting,  \* the same of a credentials file
  import,      \* the import under way, or None
  finished,    \* the last one that succeeded
  refreshing,  \* None, "groups" or "connections": of two refreshes the later, which repeats the other
  basis,       \* auxiliary: what the candidates were made from
  imports, failures, chosen  \* count up to the bounds

lists  == <<listed, listedGroups, refreshing>>
files  == <<source, text, credentials, candidates, selected>>
reads  == <<reading, decrypting, chosen>>
transferVars ==
  <<saved, groups, lists, files, reads, import, finished, basis, imports, failures>>

Exists(x) == x # None

(* Of what is saved and what is exported each has an id of its own; only   *)
(* S3 has a catalog, and that is none.                                     *)
TransferAssumption ==
  /\ None \notin Nat \cup Refs /\ Refs \cap Nat = {} /\ OwnGroups \in Seq(Range(OwnGroups))
  /\ \A cs \in Own :
       /\ cs \in Seq(Range(cs))
       /\ \A n \in DOMAIN cs :
            /\ cs[n].id = n
            /\ cs[n].catalog # None =>
                 cs[n].dialect = "s3" /\ cs[n].catalog \in DOMAIN cs /\ cs[cs[n].catalog].dialect # "s3"
  /\ \A f \in Theirs :
       /\ f.entries \in Seq(Range(f.entries))
       /\ \A m, n \in DOMAIN f.entries :
            /\ f.entries[m].ref = f.entries[n].ref => m = n
            /\ f.entries[m].catalog = f.entries[n].ref => f.entries[n].dialect # "s3"
       /\ \A n \in DOMAIN f.entries :
            /\ f.entries[n].ref \in Refs /\ f.entries[n].catalog \in Refs \cup {None}
            /\ f.entries[n].catalog # None => f.entries[n].dialect = "s3"

-----------------------------------------------------------------------------
(* A connection has a dialect ("database", "s3", or "duckdb", which is not *)
(* importable), a place, a user, and in S3 the id of a catalog connection. *)
Importable(c) == c.dialect \in {"database", "s3"}

EndpointKey(c) == <<c.dialect, c.place, IF c.dialect = "s3" THEN NoUser ELSE c.user>>
AnyUser(c)     == <<c.dialect, c.place, NoUser>>

HasConfig(c) == c.status # "unsupported"

(* The items of a sequence at some places of it. *)
Nth(places, k) == CHOOSE n \in places : Cardinality({m \in places : m <= n}) = k

InOrder(s, places) == [k \in 1 .. Cardinality(places) |-> s[Nth(places, k)]]

(* A candidate is a duplicate of what exists or of an earlier one. *)
Repeats(c, known) ==
  EndpointKey(known) = EndpointKey(c) \/ (c.user = NoUser /\ AnyUser(known) = AnyUser(c))

MarkDuplicates(cs, existing) ==
  [n \in DOMAIN cs |->
    LET known == existing \cup {cs[j] : j \in {k \in DOMAIN cs : k < n /\ HasConfig(cs[k])}}
    IN IF HasConfig(cs[n]) /\ \E c \in known : Repeats(cs[n], c)
       THEN [cs[n] EXCEPT !.status = "duplicate"] ELSE cs[n]]

Exported(c) ==
  [ref |-> c.id, dialect |-> c.dialect, host |-> c.place, url |-> None,
   user |-> IF c.dialect = "s3" THEN NoUser ELSE c.user,
   folder |-> IF c.group \in DOMAIN listedGroups THEN listedGroups[c.group] ELSE None, catalog |-> c.catalog]

BuildConnectionExport(cs) ==
  [source |-> "omni-sql", version |-> 1, entries |-> [n \in DOMAIN cs |-> Exported(cs[n])]]

Candidate(e, place, user, password) ==
  [ref |-> e.ref, folder |-> e.folder, dialect |-> e.dialect, place |-> place, user |-> user,
   password |-> password, catalog |-> e.catalog,
   status |-> IF Importable(e) /\ Exists(place) THEN "ready" ELSE "unsupported"]

OmniSqlCandidate(e) == Candidate(e, e.host, e.user, None)

(* The address is that of a URL when there is no host; the user and the    *)
(* password come from the credentials file when it has them.               *)
DbeaverCandidate(e, secrets) ==
  LET secret == IF Exists(secrets) THEN secrets[e.ref] ELSE None
  IN Candidate(e, IF Exists(e.host) THEN e.host ELSE e.url,
               IF Exists(secret) THEN secret ELSE e.user, secret)

Acceptable(f, from) == f.source = from /\ f.version = 1

AsCandidates(from, f, secrets) ==
  [n \in DOMAIN f.entries |->
     IF from = "omni-sql" THEN OmniSqlCandidate(f.entries[n])
     ELSE DbeaverCandidate(f.entries[n], secrets)]

ParseConnectionImport(from, f, existing, secrets) ==
  MarkDuplicates(AsCandidates(from, f, secrets), existing)

Checked(cs, refs) == {n \in DOMAIN cs : HasConfig(cs[n]) /\ cs[n].ref \in refs}

(* A mistake: in the order of the file. *)
ChosenInOrder(cs, refs) == InOrder(cs, Checked(cs, refs))

(* S3 goes last. *)
S3(cs) == {n \in DOMAIN cs : cs[n].dialect = "s3"}

Chosen(cs, refs) ==
  InOrder(cs, Checked(cs, refs) \ S3(cs)) \o InOrder(cs, Checked(cs, refs) \cap S3(cs))

RelinkDucklakeCatalogs(c, newIds) ==
  IF Exists(c.catalog) /\ c.catalog \in DOMAIN newIds THEN newIds[c.catalog] ELSE c.catalog

-----------------------------------------------------------------------------
TransferInit ==
  /\ saved \in Own
  /\ groups = OwnGroups
  /\ listed = saved /\ listedGroups = groups
  /\ source = "omni-sql"
  /\ text = None /\ credentials = None /\ candidates = None /\ selected = {}
  /\ reading = None /\ decrypting = None
  /\ import = None /\ finished = None /\ refreshing = None /\ basis = None
  /\ imports = 0 /\ failures = 0 /\ chosen = 0

Idle == import = None
Another == chosen < MaxReads /\ chosen' = chosen + 1
Fails == failures < MaxFailures /\ failures' = failures + 1

ForgetFiles ==
  /\ text' = None /\ credentials' = None
  /\ candidates' = None /\ selected' = {}
  /\ finished' = None
  /\ UNCHANGED <<basis, saved, groups, lists, reads, import, imports, failures>>

(* Of the buttons, none works while an import is under way. *)
ChooseSource(s) == Idle /\ source' = s /\ ForgetFiles
Reopen == Idle /\ ForgetFiles /\ UNCHANGED source

Ready(cs) == {c.ref : c \in {d \in Range(cs) : d.status = "ready"}}

Render(f) == [of |-> f, source |-> source, listed |-> Range(listed)]

Choose(f) ==
  /\ Idle /\ reading = None /\ Another
  /\ reading' = Render(f)
  /\ finished' = None
  /\ UNCHANGED <<basis, saved, groups, lists, files, decrypting, import, imports, failures>>

(* loadFile of the test or of a backup made here. *)
ChooseBackup ==
  Choose(BuildConnectionExport(InOrder(listed, {n \in DOMAIN listed : Importable(listed[n])})))

ShowCandidates(r, f, secrets) ==
  IF Acceptable(f, r.source)
  THEN LET parsed == ParseConnectionImport(r.source, f, r.listed, secrets)
       IN /\ candidates' = parsed
          /\ selected' = Ready(parsed)
          /\ basis' = [from |-> r.source, file |-> f, listed |-> r.listed, secrets |-> secrets]
  ELSE UNCHANGED <<candidates, selected, basis>>

FileRead ==
  /\ reading # None
  /\ text' = IF reading.source = "dbeaver" THEN reading.of ELSE text
  /\ IF Acceptable(reading.of, reading.source) THEN ShowCandidates(reading, reading.of, credentials)
     ELSE candidates' = None /\ UNCHANGED <<selected, basis>>
  /\ reading' = None
  /\ UNCHANGED <<saved, groups, lists, source, credentials, decrypting, chosen, import, finished, imports, failures>>

ChooseCredentials(k) ==
  /\ Idle /\ source = "dbeaver" /\ decrypting = None /\ Another
  /\ decrypting' = Render(k)
  /\ finished' = None
  /\ UNCHANGED <<basis, saved, groups, lists, files, reading, import, imports, failures>>

CredentialsRead ==
  /\ decrypting # None
  /\ decrypting' = None
  /\ credentials' = decrypting.of
  /\ IF Exists(text) THEN ShowCandidates(decrypting, text, decrypting.of)
     ELSE UNCHANGED <<candidates, selected, basis>>
  /\ UNCHANGED <<saved, groups, lists, source, text, reading, chosen, import, finished, imports, failures>>

CredentialsUnreadable ==
  /\ decrypting # None /\ Fails
  /\ decrypting' = None
  /\ UNCHANGED <<basis, saved, groups, lists, files, reading, chosen, import, finished, imports>>

Toggle(c) ==
  /\ Idle /\ Exists(candidates) /\ c \in Range(candidates) /\ HasConfig(c)
  /\ selected' = IF c.ref \in selected THEN selected \ {c.ref} ELSE selected \cup {c.ref}
  /\ LET ready == Ready(candidates)
     IN Cardinality((selected' \ ready) \cup (ready \ selected')) <= MaxToggles
  /\ UNCHANGED <<basis, saved, groups, lists, source, text, credentials, candidates,
                 reads, import, finished, imports, failures>>

-----------------------------------------------------------------------------
(* runImport, call by call. *)
Names(gs) ==
  [n \in {Lower[gs[i]] : i \in DOMAIN gs} |->
     CHOOSE i \in DOMAIN gs : Lower[gs[i]] = n /\ \A j \in DOMAIN gs : Lower[gs[j]] = n => j <= i]

With(map, key, value) == [k \in DOMAIN map \cup {key} |-> IF k = key THEN value ELSE map[k]]

Keys(cs) == {EndpointKey(c) : c \in cs}

(* What the dialog checked, of candidates that were compared with all that *)
(* is saved.                                                               *)
ByDefault == selected = Ready(candidates) /\ Keys(basis.listed) = Keys(Range(saved))

RunImport ==
  /\ Idle /\ Exists(candidates) /\ imports < MaxImports
  /\ LET picked == Chosen(candidates, selected)
     IN /\ picked # <<>>
        /\ Len(saved) + Len(picked) <= MaxSaved
        /\ import' = [at |-> "add", left |-> picked, newIds |-> <<>>, groupIds |-> Names(listedGroups),
                      count |-> 0, chosen |-> Range(picked),
                      known |-> listedGroups, from |-> Len(groups), byDefault |-> ByDefault, of |-> basis]
  /\ imports' = imports + 1
  /\ UNCHANGED <<basis, saved, groups, lists, files, reads, finished, failures>>

At(p) == Exists(import) /\ import.at = p /\ import.left # <<>>
Current == Head(import.left)

Going(at, left, newIds, groupIds, count) ==
  [at |-> at, left |-> left, newIds |-> newIds, groupIds |-> groupIds, count |-> count,
   chosen |-> import.chosen, known |-> import.known, from |-> import.from,
   byDefault |-> import.byDefault, of |-> import.of]

(* On to the call that is next, or to the next candidate. *)
Onward(newIds) == Going("add", Tail(import.left), newIds, import.groupIds, import.count + 1)

AddConnection ==
  /\ At("add")
  /\ LET id == Len(saved) + 1
         newIds == With(import.newIds, Current.ref, id)
     IN /\ saved' = Append(saved,
             [id |-> id, dialect |-> Current.dialect, place |-> Current.place, user |-> Current.user,
              password |-> Current.password, group |-> None,
              catalog |-> RelinkDucklakeCatalogs(Current, import.newIds)])
        /\ import' = IF Current.folder = None THEN Onward(newIds)
                     ELSE Going(IF Lower[Current.folder] \in DOMAIN import.groupIds THEN "move" ELSE "group",
                                import.left, newIds, import.groupIds, import.count)
  /\ UNCHANGED <<basis, groups, lists, files, reads, finished, imports, failures>>

CreateGroup ==
  /\ At("group")
  /\ groups' = Append(groups, Current.folder)
  /\ import' = Going("move", import.left, import.newIds,
                     With(import.groupIds, Lower[Current.folder], Len(groups) + 1), import.count)
  /\ UNCHANGED <<basis, saved, lists, files, reads, finished, imports, failures>>

Moved(c, group) ==
  [id |-> c.id, dialect |-> c.dialect, place |-> c.place, user |-> c.user,
   password |-> c.password, group |-> group, catalog |-> c.catalog]

MoveConnection ==
  /\ At("move")
  /\ saved' = [n \in DOMAIN saved |->
       IF saved[n].id = import.newIds[Current.ref]
       THEN Moved(saved[n], import.groupIds[Lower[Current.folder]]) ELSE saved[n]]
  /\ import' = Onward(import.newIds)
  /\ UNCHANGED <<basis, groups, lists, files, reads, finished, imports, failures>>

Refresh == IF import.count > 0 THEN "groups" ELSE refreshing

ImportEnds ==
  /\ Exists(import) /\ import.left = <<>>
  /\ import' = None /\ finished' = import
  /\ candidates' = None /\ text' = None /\ credentials' = None
  /\ refreshing' = Refresh
  /\ UNCHANGED <<basis, saved, groups, listed, listedGroups, source, selected, reads, imports, failures>>

(* A call fails: what was imported stays, and so do the candidates. *)
ImportFails ==
  /\ \E p \in {"add", "group", "move"} : At(p)
  /\ Fails
  /\ import' = None
  /\ refreshing' = Refresh
  /\ UNCHANGED <<basis, saved, groups, listed, listedGroups, files, reads, finished, imports>>

(* onImported, of the application. *)
LoadGroups ==
  /\ refreshing = "groups"
  /\ \/ listedGroups' = groups /\ refreshing' = "connections" /\ UNCHANGED failures
     \/ Fails /\ refreshing' = None /\ UNCHANGED listedGroups
  /\ UNCHANGED <<basis, saved, groups, listed, files, reads, import, finished, imports>>

LoadConnections ==
  /\ refreshing = "connections" /\ refreshing' = None
  /\ \/ listed' = saved /\ UNCHANGED failures
     \/ Fails /\ listed' = <<>>
  /\ UNCHANGED <<basis, saved, groups, listedGroups, files, reads, import, finished, imports>>

TransferNext ==
  \/ \E s \in {"omni-sql", "dbeaver"} : ChooseSource(s)
  \/ Reopen \/ ChooseBackup \/ FileRead
  \/ \E f \in Theirs : Choose(f)
  \/ \E k \in CredentialFiles : ChooseCredentials(k)
  \/ CredentialsRead \/ CredentialsUnreadable
  \/ Exists(candidates) /\ \E c \in Range(candidates) : Toggle(c)
  \/ RunImport \/ AddConnection \/ CreateGroup \/ MoveConnection
  \/ ImportEnds \/ ImportFails
  \/ LoadGroups \/ LoadConnections

-----------------------------------------------------------------------------
(* A catalog is a connection of the file, or one that is saved: no S3.     *)
Linked(c, cs) ==
  /\ c.catalog \in Nat \cup Refs \cup {None}
  /\ c.catalog # None => c.dialect = "s3"
  /\ c.catalog \in Nat => c.catalog \in DOMAIN cs /\ cs[c.catalog].dialect # "s3"

(* Connections are known by their places, and what is listed was saved.    *)
ListsAreSaved ==
  /\ saved \in Seq(Range(saved)) /\ groups \in Seq(Range(groups)) /\ listed \in Seq(Range(listed))
  /\ \A n \in DOMAIN saved : saved[n].id = n /\ Linked(saved[n], saved)
  /\ DOMAIN listed \subseteq DOMAIN saved
  /\ \A n \in DOMAIN listed :
       listed[n].id = n /\ listed[n].dialect = saved[n].dialect /\ listed[n].catalog = saved[n].catalog
  /\ listedGroups \in Seq(Range(listedGroups)) /\ DOMAIN listedGroups \subseteq DOMAIN groups
  /\ \A i \in DOMAIN listedGroups : listedGroups[i] = groups[i]

(* A file that was exported names each connection once.                    *)
IsFile(f, cs) ==
  /\ f.entries \in Seq(Range(f.entries))
  /\ \A m, n \in DOMAIN f.entries :
       /\ f.entries[m].ref = f.entries[n].ref => m = n
       /\ f.entries[m].catalog = f.entries[n].ref => f.entries[n].dialect # "s3"
  /\ \A n \in DOMAIN f.entries : f.entries[n].ref \in Nat \cup Refs /\ Linked(f.entries[n], cs)

Parsed(of) == ParseConnectionImport(of.from, of.file, of.listed, of.secrets)

(* What is shown was made from what the dialog says it was.                *)
CandidatesAreParsed ==
  /\ Exists(reading) => IsFile(reading.of, saved)
  /\ Exists(text) => IsFile(text, saved)
  /\ Exists(candidates) => candidates = Parsed(basis) /\ IsFile(basis.file, saved)

(* The candidates whose connection is still to be added.                   *)
Pending(i) == {k \in DOMAIN i.left : k > 1 \/ i.at = "add"}

(* Each candidate has its turn once, S3 after the others.                  *)
InTurn(i) ==
  /\ i.left \in Seq(i.chosen) /\ i.at \in {"add", "group", "move"}
  /\ i.at # "add" => i.left # <<>> /\ Exists(Head(i.left).folder)
  /\ \A j, k \in DOMAIN i.left :
       /\ i.left[j].ref = i.left[k].ref => j = k
       /\ j < k /\ i.left[j].dialect = "s3" => i.left[k].dialect = "s3"
  /\ DOMAIN i.newIds = {c.ref : c \in i.chosen} \ {i.left[k].ref : k \in Pending(i)}

ImportInOrder ==
  Exists(import) =>
    /\ InTurn(import)
    /\ IsFile(import.of.file, saved)
    /\ import.chosen \subseteq {c \in Range(Parsed(import.of)) : HasConfig(c)}

(* The import knows each group it may need, and makes the others once.     *)
GroupsAreKnown ==
  Exists(import) =>
    /\ \A name \in DOMAIN import.groupIds :
         import.groupIds[name] \in DOMAIN groups /\ Lower[groups[import.groupIds[name]]] = name
    /\ import.at = "move" => Lower[Current.folder] \in DOMAIN import.groupIds
    /\ import.at = "group" => Lower[Current.folder] \notin DOMAIN import.groupIds
    /\ import.from \in Nat /\ DOMAIN import.known \subseteq 1 .. import.from
    /\ \A i \in DOMAIN groups :
         i \in DOMAIN import.known \/ i > import.from => Lower[groups[i]] \in DOMAIN import.groupIds

(* A candidate was added: as it was read, with a catalog that points at    *)
(* the connection imported with it; and put into a folder of its name.     *)
Added(c, of, cs) ==
  /\ c.ref \in DOMAIN of.newIds /\ of.newIds[c.ref] \in DOMAIN cs
  /\ LET d == cs[of.newIds[c.ref]]
     IN /\ EndpointKey(d) = EndpointKey(c) /\ d.password = c.password
        /\ \A e \in of.chosen : c.catalog = e.ref => d.catalog = of.newIds[e.ref]

InItsFolder(c, of, cs, gs) ==
  LET group == cs[of.newIds[c.ref]].group
  IN IF Exists(c.folder) THEN group \in DOMAIN gs /\ Lower[gs[group]] = Lower[c.folder]
     ELSE group = None

AddedSoFar ==
  Exists(import) =>
    /\ \A c \in import.chosen :
         /\ c.ref \in DOMAIN import.newIds => Added(c, import, saved)
         /\ c \notin Range(import.left) => InItsFolder(c, import, saved, groups)
    /\ \A r, s \in DOMAIN import.newIds : import.newIds[r] = import.newIds[s] => r = s
    /\ Exists(finished) =>
         \A c \in finished.chosen, r \in DOMAIN import.newIds : import.newIds[r] # finished.newIds[c.ref]

(* A finished import saved what was chosen. *)
AllImported ==
  Exists(finished) =>
    \A c \in finished.chosen : Added(c, finished, saved) /\ InItsFolder(c, finished, saved, groups)

(* A catalog is there before the connection that points at it. *)
CatalogFirst ==
  Exists(import) =>
    \A c, e \in import.chosen :
      c.catalog = e.ref /\ c.ref \in DOMAIN import.newIds => e.ref \in DOMAIN import.newIds

(* An import makes no second group of a name, up to case. *)
OneGroupPerFolder ==
  Exists(import) =>
    \A i, j \in DOMAIN groups :
      i < j /\ j > import.from /\ Lower[groups[i]] = Lower[groups[j]] =>
        i <= import.from /\ i \notin DOMAIN import.known

(* An import of what the dialog checked by itself adds no connection that  *)
(* is there already, by the file or before.                                *)
AllThatIsNew(of, cs) ==
  /\ of.chosen = {c \in Range(Parsed(of.of)) : c.status = "ready"}
  /\ Keys(of.of.listed) \subseteq Keys(Range(cs))

NoDoubleByDefault ==
  Exists(import) /\ import.byDefault =>
    /\ AllThatIsNew(import, saved)
    /\ \A k \in Pending(import) :
         /\ \A d \in Range(saved) : ~Repeats(import.left[k], d)
         /\ \A j \in Pending(import) : j < k => ~Repeats(import.left[k], import.left[j])

(* And the same file, imported once more, has nothing to add. *)
SecondImportIsNoOp ==
  Exists(finished) /\ finished.byDefault =>
    LET of == finished.of
    IN /\ AllThatIsNew(finished, saved)
       /\ Ready(ParseConnectionImport(of.from, of.file, Range(saved), of.secrets)) = {}

TransferInv ==
  /\ ListsAreSaved /\ CandidatesAreParsed /\ ImportInOrder /\ GroupsAreKnown /\ AddedSoFar
  /\ AllImported /\ CatalogFirst /\ OneGroupPerFolder /\ NoDoubleByDefault /\ SecondImportIsNoOp
=============================================================================
