---------------------------- MODULE ArchiveFormat ---------------------------
(***************************************************************************)
(* The format of an offline archive: what one instance exports, another    *)
(* one, or the same one later, must be able to import.                     *)
(*                                                                         *)
(* The nodes and perhaps the sessions are files of a ZIP beside a manifest *)
(* that carries their sizes, their digests and a summary of their records. *)
(* The ZIP is encrypted with a key made of the password.  The importer     *)
(* trusts nothing: it follows the directory of the ZIP, checks every       *)
(* offset and size, and compares the manifest with the files.              *)
(*                                                                         *)
(* Bytes are counted, not spelled: a file is its size and its content, and *)
(* a ZIP is the records in it with the offsets they are found at.  Digests *)
(* and checksums tell contents apart, and a ciphertext that was changed,   *)
(* or is opened with another password, does not authenticate.  The summary *)
(* is sorted by the host's collation, so that is part of what a host is.   *)
(* A single record is written and checked by the same rules on both sides  *)
(* (validateEntry(), SyncNodeService.validateManifest()); how many of them *)
(* a bundle may hold is not: only the importer counts.                     *)
(***************************************************************************)
EXTENDS Integers, Sequences, FiniteSets, Functions

CONSTANTS Collation, \* collation[c]: a sequence of all records, as c sorts them
          Password,  \* passwords
          Size,      \* sizes of files, in bytes
          MaxBytes,  \* MAX_OFFLINE_ARCHIVE_BYTES, also MAX_SYNC_TRANSFER_BYTES
          MaxRecords, \* MAX_SYNC_SESSIONS
          None       \* nothing exported or imported yet

VARIABLES
  package, \* the exported archive, or None
  origin,  \* what was exported, by a host of which collation
  outcome  \* what an import yields: "refused", contents, or None

vars == <<package, origin, outcome>>

Header == 50
Tag == 16
LocalHeader == 30
CentralHeader == 46
EndRecord == 22
MaxZip == MaxBytes - Header - Tag

NameBytes(name) == IF name = "nodes.json" THEN 10 ELSE 13
Rows(s) == 1 .. Len(s)

Record == UNION {{order[i] : i \in Rows(order)} : order \in Collation}

(* A record is a node's or a session's.                                    *)
Contents ==
  {c \in [nodes : SUBSET Record, sessions : (SUBSET Record) \cup {None}] :
     c.sessions = None \/ c.nodes \cap c.sessions = {}}

(* A digest identifies what it was made of. *)
Digest(data) == <<"sha256", data>>

-----------------------------------------------------------------------------
(* writeZipParts() *)

LocalBytes(f) == LocalHeader + NameBytes(f.name) + f.bytes
CentralBytes(f) == CentralHeader + NameBytes(f.name)
LocalSizes(files) == [k \in Rows(files) |-> LocalBytes(files[k])]

(* Wrong on purpose: the offset of a file leaves the names before it out.  *)
LocalAtNameless(files, i) ==
  SumFunctionOnSet([k \in Rows(files) |-> LocalHeader + files[k].bytes], 1 .. (i - 1))

(* A file's local record follows those of the files before it. *)
LocalAt(files, i) == SumFunctionOnSet(LocalSizes(files), 1 .. (i - 1))

(* The local records, then the directory with their offsets, then the end. *)
Zip(files) ==
  LET data == SumFunction(LocalSizes(files))
      central == SumFunction([k \in Rows(files) |-> CentralBytes(files[k])])
  IN  [local |-> {[at |-> SumFunctionOnSet(LocalSizes(files), 1 .. (i - 1)),
                   file |-> files[i]] : i \in Rows(files)},
       central |-> [i \in Rows(files) |-> [file |-> files[i], at |-> LocalAt(files, i)]],
       centralAt |-> data, centralBytes |-> central,
       bytes |-> data + central + EndRecord]

Fits(files) ==
  /\ SumFunction([k \in Rows(files) |-> files[k].bytes]) <= MaxBytes
  /\ Zip(files).bytes <= MaxZip

-----------------------------------------------------------------------------
(* exportArchiveNow() *)

(* The records of both kinds, in the host's order. *)
Summary(contents, order) ==
  SelectSeq(order, LAMBDA r :
    r \in contents.nodes \/ (contents.sessions # None /\ r \in contents.sessions))

File(name, bytes, data) == [name |-> name, bytes |-> bytes, data |-> data]
Described(bytes, data) == [bytes |-> bytes, digest |-> Digest(data)]

(* The files of an archive; sizes are those of the manifest, the nodes and *)
(* the sessions.                                                           *)
Files(contents, order, size) ==
  LET manifest == [sessions |-> contents.sessions # None,
                   nodesFile |-> Described(size[2], contents.nodes),
                   sessionsFile |-> IF contents.sessions = None THEN None
                                    ELSE Described(size[3], contents.sessions),
                   records |-> Summary(contents, order)]
      always == <<File("manifest.json", size[1], manifest),
                  File("nodes.json", size[2], contents.nodes)>>
  IN  IF contents.sessions = None THEN always
      ELSE Append(always, File("sessions.json", size[3], contents.sessions))

(* What does not fit is not exported; nobody counts the records. *)
Export(contents, order, size, password) ==
  /\ package = None
  /\ LET files == Files(contents, order, size) IN
     /\ Fits(files)
     /\ package' = [zip |-> Zip(files), key |-> password, whole |-> TRUE,
                    bytes |-> Header + Zip(files).bytes + Tag]
  /\ origin' = [contents |-> contents, order |-> order, key |-> password]
  /\ UNCHANGED outcome

(* The file is cut short or changed on its way. *)
Damage ==
  /\ package # None /\ outcome = None
  /\ package' = [package EXCEPT !.whole = FALSE]
  /\ UNCHANGED <<origin, outcome>>

-----------------------------------------------------------------------------
(* parseZip() *)

(* The directory lies right before the end record and has nothing else in  *)
(* it; the names are the two or three expected ones.                       *)
DirectoryOk(zip) ==
  LET names == {zip.central[i].file.name : i \in Rows(zip.central)} IN
  /\ Len(zip.central) \in 2 .. 3
  /\ zip.centralAt + zip.centralBytes = zip.bytes - EndRecord
  /\ zip.centralBytes =
       SumFunction([i \in Rows(zip.central) |-> CentralBytes(zip.central[i].file)])
  /\ Cardinality(names) = Len(zip.central)
  /\ {"manifest.json", "nodes.json"} \subseteq names
  /\ "sessions.json" \in names <=> Len(zip.central) = 3
  /\ SumFunction([i \in Rows(zip.central) |-> zip.central[i].file.bytes]) <= MaxBytes

(* Every entry leads to a local record of the same file, all of it before  *)
(* the directory, and no two overlap.                                      *)
EntriesOk(zip) ==
  LET end(e) == e.at + LocalBytes(e.file) IN
  /\ \A i \in Rows(zip.central) :
       LET e == zip.central[i] IN
       [at |-> e.at, file |-> e.file] \in zip.local /\ end(e) <= zip.centralAt
  /\ \A i, j \in Rows(zip.central) :
       zip.central[i].at < zip.central[j].at => end(zip.central[i]) <= zip.central[j].at

(* The file of that name, or None. *)
Named(zip, name) ==
  LET found == {i \in Rows(zip.central) : zip.central[i].file.name = name} IN
  IF found = {} THEN None ELSE zip.central[CHOOSE i \in found : TRUE].file

-----------------------------------------------------------------------------
(* validateSyncSessionBundle(): a bundle may hold so many sessions.        *)
BundleOk(sessions) == Cardinality(sessions) <= MaxRecords

(* validateManifest(): the manifest's sizes, digests and summary are those *)
(* of the files, as this host sorts them, and the bundle is a proper one.  *)
ManifestOk(zip, order) ==
  LET manifest == Named(zip, "manifest.json").data
      nodes == Named(zip, "nodes.json")
      sessions == Named(zip, "sessions.json")
      matches(described, f) == described = Described(f.bytes, f.data)
  IN  /\ manifest.sessions <=> sessions # None
      /\ matches(manifest.nodesFile, nodes)
      /\ IF sessions = None THEN manifest.sessionsFile = None
         ELSE matches(manifest.sessionsFile, sessions) /\ BundleOk(sessions.data)
      /\ manifest.records =
           Summary([nodes |-> nodes.data,
                    sessions |-> IF sessions = None THEN None ELSE sessions.data], order)

(* What the importer reads out of an archive it accepts. *)
Decoded(zip) ==
  [nodes |-> Named(zip, "nodes.json").data,
   sessions |-> IF Named(zip, "sessions.json") = None THEN None
                ELSE Named(zip, "sessions.json").data]

(* importArchiveNow(), up to what it applies.  A host is ready when it has *)
(* room for the import (checkAvailableSpace()) and nothing of its own is   *)
(* in conflict with the records (preflightPayloads()).                     *)
Import(order, password, ready) ==
  /\ package # None /\ outcome = None
  /\ outcome' = IF /\ package.bytes \in (Header + Tag + EndRecord) .. MaxBytes
                   /\ package.whole /\ password = package.key
                   /\ package.zip.bytes <= MaxBytes
                   /\ DirectoryOk(package.zip) /\ EntriesOk(package.zip)
                   /\ ManifestOk(package.zip, order)
                   /\ ready
                THEN Decoded(package.zip)
                ELSE [refused |-> [order |-> order, key |-> password, ready |-> ready]]
  /\ UNCHANGED <<package, origin>>

-----------------------------------------------------------------------------
Init == package = None /\ origin = None /\ outcome = None

Next ==
  \/ \E contents \in Contents, order \in Collation, size \in Size \X Size \X Size,
        password \in Password : Export(contents, order, size, password)
  \/ Damage
  \/ \E order \in Collation, password \in Password, ready \in BOOLEAN :
       Import(order, password, ready)

Spec == Init /\ [][Next]_vars

Refused == outcome # None /\ "refused" \in DOMAIN outcome

-----------------------------------------------------------------------------
(* Whatever an instance can export, up to the last byte of the largest     *)
(* archive, an instance that sorts alike imports to the last record with   *)
(* the same password, if it has room and nothing in conflict.  What is     *)
(* refused was damaged, opened with another password, exported where       *)
(* records sort differently, or by nobody able to import it: it has more   *)
(* sessions than a bundle may hold.  And nothing else is ever imported.    *)
ExportsImport ==
  outcome # None =>
    IF Refused
    THEN \/ ~package.whole \/ outcome.refused.key # origin.key
         \/ outcome.refused.order # origin.order
         \/ ~outcome.refused.ready
         \/ origin.contents.sessions # None /\ ~BundleOk(origin.contents.sessions)
    ELSE outcome = origin.contents
=============================================================================
