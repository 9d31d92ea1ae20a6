------------------------------ MODULE Registry ------------------------------
(***************************************************************************)
(* The container registry: the handlers of apps/api/src/registry/routes.ts *)
(* that write, the tag deletion of admin.ts and the garbage collector of   *)
(* gc.ts, over the tables of packages/db/src/registry.ts and the large     *)
(* objects of blobStorage.ts.  Every statement commits by itself: between  *)
(* two awaits of a handler, the other handlers and the collector (another  *)
(* process, run by hand) may do anything.                                  *)
(*                                                                         *)
(* The content of a large object is the digest of what was written to it;  *)
(* offsets and ranges are left out: a piece that is written may make it    *)
(* the bytes of any digest, or of none.  A statement may fail, and so may  *)
(* the client's connection.                                                *)
(***************************************************************************)
EXTENDS Naturals, Sequences

CONSTANTS Digest,        \* blobs, by their digest
          Manifest,      \* manifests, by theirs
          Blobs(_), Children(_),  \* what a manifest refers to
          Tag, Repo(_),  \* tags, each of a repository
          Upload,        \* bound: uuids of upload sessions
          Handler,       \* requests that can be under way at once
          MaxObjects, MaxRequests, MaxFaults  \* bounds: large objects ever created,
                         \* requests, and crashes or failing statements

ASSUME BoundsAssumption == MaxObjects \in Nat /\ MaxRequests \in Nat /\ MaxFaults \in Nat

ASSUME ReferencesAssumption ==
  /\ \A m \in Manifest : Blobs(m) \subseteq Digest /\ Children(m) \subseteq Manifest
  /\ Digest \cap Manifest = {}

VARIABLES
  blob,       \* registry_blobs: the object of each digest, 0 without a row
  manifests,  \* registry_manifests
  tag,        \* registry_tags: the manifest of each tag, or None
  upload,     \* registry_uploads
  object,     \* the large objects, in the order they were created
  req,        \* the requests under way
  gc,         \* the collector: its stage, its list and what it has in hand
  requests, faults,  \* begun so far, and crashes or failing statements
  \* --- history ---
  shared,     \* objects two parties worked on at once, or one stopped over
  orphaned,   \* objects left without a row or a session (see ObjectsOwned)
  seen,       \* what pushes have seen since the collector's last list
  withdrawn   \* blobs and manifests deleted under a push that had seen them,
              \* or by a request that does not ask who refers to them

vars == <<blob, manifests, tag, upload, object, req, gc, requests, faults, shared, orphaned,
          seen, withdrawn>>
tables == <<blob, manifests, tag, upload>>

None == "none"
Absent == "absent"    \* no such large object
Empty == "empty"
Garbage == "garbage"  \* bytes of no digest

NoSession == [o |-> 0, received |-> 0, expired |-> FALSE]
NoRequest == [op |-> None, at |-> None, u |-> None, o |-> 0, d |-> None,
              m |-> None, t |-> None, todo |-> {}]
Nothing == [o |-> 0, key |-> None]
IdleGc == [at |-> "idle", todo |-> {}, hand |-> Nothing]

Init ==
  /\ blob = [d \in Digest |-> 0]
  /\ manifests = {}
  /\ tag = [t \in Tag |-> None]
  /\ upload = [u \in Upload |-> NoSession]
  /\ object = <<>>
  /\ req = [h \in Handler |-> NoRequest]
  /\ gc = IdleGc
  /\ requests = 0 /\ faults = 0
  /\ shared = {} /\ orphaned = {} /\ seen = {} /\ withdrawn = {}

Tagged(m) == \E t \in Tag : tag[t] = m
Parents(m) == {p \in manifests : m \in Children(p)}
Sessions == {u \in Upload : upload[u] # NoSession}

-----------------------------------------------------------------------------
(* Requests: a handler begins with its first read, and goes on.            *)

Start(h, r) ==
  /\ requests < MaxRequests
  /\ requests' = requests + 1
  /\ req[h] = NoRequest /\ req' = [req EXCEPT ![h] = r]
GoTo(h, at) == req' = [req EXCEPT ![h].at = at]
End(h) == req' = [req EXCEPT ![h] = NoRequest]
At(h, at) == req[h].at = at

\* createBlobOid; the object takes the next number.
Create(h, op, at, d) ==
  /\ Len(object) < MaxObjects
  /\ object' = Append(object, Empty)
  /\ Start(h, [NoRequest EXCEPT !.op = op, !.at = at, !.d = d, !.o = Len(object')])
  /\ UNCHANGED <<tables, gc, faults, orphaned, seen, withdrawn>>

\* lo_unlink of one object; an object that is gone already is an error.
Unlinked(o) == [object EXCEPT ![o] = Absent]
Exists(o) == object[o] # Absent

\* insertRegistryBlob does nothing when the digest has a row.
InsertRow(d, o) ==
  /\ blob' = IF blob[d] = 0 THEN [blob EXCEPT ![d] = o] ELSE blob
  /\ orphaned' = IF blob[d] \in {0, o} THEN orphaned ELSE orphaned \cup {o}

-----------------------------------------------------------------------------
(* Uploads.                                                                *)

\* POST .../blobs/uploads/: an object, and then its session.
BeginSession(h) == Create(h, "begin", "session", None)

InsertSession(h) ==
  /\ At(h, "session")
  /\ \E u \in Upload :
       /\ upload[u] = NoSession
       /\ upload' = [upload EXCEPT ![u] = [o |-> req[h].o, received |-> 0, expired |-> FALSE]]
  /\ End(h)
  /\ UNCHANGED <<blob, manifests, tag, object, gc, requests, faults, orphaned, seen, withdrawn>>

\* POST ...?digest=: the whole blob in one request.
BeginMonolithic(h, d) == Create(h, "whole", "body", d)

\* What does not arrive, or has another digest, is unlinked.
WriteMonolithic(h) ==
  /\ At(h, "body")
  /\ \E written \in {req[h].d, Garbage} :
       IF written = req[h].d
       THEN object' = [object EXCEPT ![req[h].o] = written] /\ GoTo(h, "row")
       ELSE object' = Unlinked(req[h].o) /\ End(h)
  /\ UNCHANGED <<tables, gc, requests, faults, orphaned, seen, withdrawn>>

InsertMonolithic(h) ==
  /\ At(h, "row")
  /\ InsertRow(req[h].d, req[h].o)
  /\ End(h)
  /\ UNCHANGED <<manifests, tag, upload, object, gc, requests, faults, seen, withdrawn>>

\* A request of a session reads its row first; no one looks at expires_at.
ReadSession(h, u, op, at, d) ==
  /\ u \in Sessions
  /\ Start(h, [NoRequest EXCEPT !.op = op, !.at = at, !.u = u, !.d = d, !.o = upload[u].o])
  /\ UNCHANGED <<tables, object, gc, faults, orphaned, seen, withdrawn>>

\* PATCH: its body goes where the row said the last one ended.
BeginPatch(h, u) == ReadSession(h, u, "patch", "write", None)

\* streamWriteBlob: the body comes in pieces, one lo_put each, from an offset
\* that other requests of the session may have written at too.
WriteChunk(h) ==
  /\ At(h, "write") \/ At(h, "final")
  /\ Exists(req[h].o)
  /\ \E content \in Digest \cup {Garbage} : object' = [object EXCEPT ![req[h].o] = content]
  /\ UNCHANGED <<tables, req, gc, requests, faults, orphaned, seen, withdrawn>>

\* The body is at its end, or breaks off, as it does over a missing object.
EndBody(h) ==
  /\ At(h, "write") \/ At(h, "final")
  /\ GoTo(h, IF At(h, "write") THEN "received" ELSE "verify") \/ End(h)
  /\ UNCHANGED <<tables, object, gc, requests, faults, orphaned, seen, withdrawn>>

UpdateReceived(h) ==
  /\ At(h, "received")
  /\ upload' = [u \in Upload |-> IF u = req[h].u /\ u \in Sessions
                                 THEN [upload[u] EXCEPT !.received = 1] ELSE upload[u]]
  /\ End(h)
  /\ UNCHANGED <<blob, manifests, tag, object, gc, requests, faults, orphaned, seen, withdrawn>>

\* PUT ...?digest=: the final chunk may come with it; size and digest are
\* compared, or the upload is dropped.
BeginComplete(h, u) ==
  \E d \in Digest : \E at \in {"final", IF upload[u].received = 0 THEN "empty" ELSE "verify"} :
    ReadSession(h, u, "complete", at, d)

\* Mistake: the digest of what was written is not compared.
VerifyNothing(h) ==
  /\ At(h, "empty") \/ At(h, "verify")
  /\ IF Exists(req[h].o) THEN GoTo(h, "exists") ELSE End(h)
  /\ UNCHANGED <<tables, object, gc, requests, faults, orphaned, seen, withdrawn>>

\* The bytes may be the right ones and their number not the one that was
\* recorded: a write that was not, or another request's.
Verify(h) ==
  LET o == req[h].o
  IN  /\ At(h, "empty") \/ At(h, "verify")
      /\ \/ ~Exists(o) /\ object' = object /\ End(h)
         \/ At(h, "verify") /\ object[o] = req[h].d /\ object' = object /\ GoTo(h, "exists")
         \/ Exists(o) /\ object' = Unlinked(o) /\ GoTo(h, "drop")
      /\ UNCHANGED <<tables, gc, requests, faults, orphaned, seen, withdrawn>>

CheckExisting(h) ==
  /\ At(h, "exists")
  /\ GoTo(h, IF blob[req[h].d] = 0 THEN "insert" ELSE "reuse")
  /\ UNCHANGED <<tables, object, gc, requests, faults, orphaned, seen, withdrawn>>

\* Mistake: the object of a blob that was there already is kept.
KeepObject(h) ==
  /\ At(h, "reuse")
  /\ GoTo(h, "drop")
  /\ UNCHANGED <<tables, object, gc, requests, faults, orphaned, seen, withdrawn>>

\* The blob was there: this object goes, whosever it has become.
ReuseBlob(h) ==
  /\ At(h, "reuse")
  /\ object' = Unlinked(req[h].o)
  /\ GoTo(h, "drop")
  /\ UNCHANGED <<tables, gc, requests, faults, orphaned, seen, withdrawn>>

CommitBlob(h) ==
  /\ At(h, "insert")
  /\ InsertRow(req[h].d, req[h].o)
  /\ GoTo(h, "drop")
  /\ UNCHANGED <<manifests, tag, upload, object, gc, requests, faults, seen, withdrawn>>

DropSession(h) ==
  /\ At(h, "drop")
  /\ upload' = [upload EXCEPT ![req[h].u] = IF @.o = req[h].o THEN NoSession ELSE @]
  /\ End(h)
  /\ UNCHANGED <<blob, manifests, tag, object, gc, requests, faults, orphaned, seen, withdrawn>>

\* DELETE of a session: the row goes first, then the object,
Cancel(h, u) ==
  /\ u \in Sessions
  /\ upload' = [upload EXCEPT ![u] = NoSession]
  /\ Start(h, [NoRequest EXCEPT !.op = "cancel", !.at = "unlink", !.o = upload[u].o])
  /\ UNCHANGED <<blob, manifests, tag, object, gc, faults, orphaned, seen, withdrawn>>

\* unless it was asked through another repository: the answer is 404 then.
CancelElsewhere(h, u) ==
  /\ u \in Sessions
  /\ upload' = [upload EXCEPT ![u] = NoSession]
  /\ Start(h, NoRequest)
  /\ orphaned' = orphaned \cup {upload[u].o}
  /\ UNCHANGED <<blob, manifests, tag, object, gc, faults, seen, withdrawn>>

Unlink(h) ==
  /\ At(h, "unlink")
  /\ object' = Unlinked(req[h].o)
  /\ End(h)
  /\ UNCHANGED <<tables, gc, requests, faults, orphaned, seen, withdrawn>>

\* 24 hours pass.
Expire(u) ==
  /\ u \in Sessions /\ ~upload[u].expired
  /\ upload' = [upload EXCEPT ![u].expired = TRUE]
  /\ UNCHANGED <<blob, manifests, tag, object, req, gc, requests, faults, orphaned, seen, withdrawn>>

-----------------------------------------------------------------------------
(* Blobs, manifests and tags.                                              *)

\* What pushes under way have found to exist.
HeldBy(h) == IF req[h].op = "put"
             THEN (Blobs(req[h].m) \cup Children(req[h].m)) \ req[h].todo ELSE {}
Held == UNION {HeldBy(h) : h \in Handler}

Withdraw(x, unasked) ==
  withdrawn' = IF x \in Held \cup seen \/ unasked THEN withdrawn \cup {x} ELSE withdrawn

\* DELETE of a blob asks no manifest: it reads the row, deletes it, and unlinks.
BeginDeleteBlob(h, d) ==
  /\ blob[d] # 0
  /\ Start(h, [NoRequest EXCEPT !.op = "deleteBlob", !.at = "deleteRow", !.d = d, !.o = blob[d]])
  /\ UNCHANGED <<tables, object, gc, faults, orphaned, seen, withdrawn>>

DeleteBlobRow(h) ==
  /\ At(h, "deleteRow")
  /\ blob' = [blob EXCEPT ![req[h].d] = 0]
  /\ orphaned' = orphaned \cup ({blob[req[h].d]} \ {0, req[h].o})
  /\ Withdraw(req[h].d, TRUE)
  /\ GoTo(h, "unlink")
  /\ UNCHANGED <<manifests, tag, upload, object, gc, requests, faults, seen>>

\* PUT of a manifest: each reference is looked up, one await after the other.
BeginPut(h, m, t) ==
  /\ Start(h, [NoRequest EXCEPT !.op = "put", !.at = "check", !.m = m, !.t = t,
                                !.todo = Blobs(m) \cup Children(m)])
  /\ UNCHANGED <<tables, object, gc, faults, orphaned, seen, withdrawn>>

Known(x) == IF x \in Digest THEN blob[x] # 0 ELSE x \in manifests

CheckReference(h) ==
  /\ At(h, "check")
  /\ \/ req[h].todo = {} /\ GoTo(h, "insertManifest") /\ seen' = seen
     \/ \E x \in req[h].todo :
          IF Known(x)
          THEN req' = [req EXCEPT ![h].todo = @ \ {x}] /\ seen' = seen \cup {x}
          ELSE End(h) /\ seen' = seen
  /\ UNCHANGED <<tables, object, gc, requests, faults, orphaned, withdrawn>>

InsertManifest(h) ==
  /\ At(h, "insertManifest")
  /\ manifests' = manifests \cup {req[h].m}
  /\ IF req[h].t = None THEN End(h) ELSE GoTo(h, "tag")
  /\ UNCHANGED <<blob, tag, upload, object, gc, requests, faults, orphaned, seen, withdrawn>>

\* The tag's foreign key needs the manifest.
UpsertTag(h) ==
  /\ At(h, "tag")
  /\ tag' = IF req[h].m \in manifests THEN [tag EXCEPT ![req[h].t] = req[h].m] ELSE tag
  /\ End(h)
  /\ UNCHANGED <<blob, manifests, upload, object, gc, requests, faults, orphaned, seen, withdrawn>>

\* DELETE of a manifest: it has a tag in the repository, those that point at it
\* are listed, and go one by one and by name.
BeginDeleteManifest(h, m, t) ==
  /\ tag[t] = m
  /\ Start(h, [NoRequest EXCEPT !.op = "deleteManifest", !.at = "tags", !.m = m, !.t = t])
  /\ UNCHANGED <<tables, object, gc, faults, orphaned, seen, withdrawn>>

ListTags(h) ==
  LET pointing == {t \in Tag : Repo(t) = Repo(req[h].t) /\ tag[t] = req[h].m}
  IN  /\ At(h, "tags")
      /\ req' = [req EXCEPT ![h].todo = pointing,
                            ![h].at = IF pointing = {} THEN "reap" ELSE "untag"]
      /\ UNCHANGED <<tables, object, gc, requests, faults, orphaned, seen, withdrawn>>

Untag(h) ==
  /\ At(h, "untag")
  /\ \E t \in req[h].todo :
       /\ tag' = [tag EXCEPT ![t] = None]
       /\ req' = [req EXCEPT ![h].todo = @ \ {t},
                             ![h].at = IF req[h].todo # {t} THEN @
                                       ELSE IF req[h].op = "deleteTag" THEN "others" ELSE "reap"]
  /\ UNCHANGED <<blob, manifests, upload, object, gc, requests, faults, orphaned, seen, withdrawn>>

\* deleteRegistryManifestIfUnreferenced, in one statement.
ReapManifest(h) ==
  LET m == req[h].m
      gone == ~Tagged(m) /\ Parents(m) = {}
  IN  /\ At(h, "reap")
      /\ manifests' = IF gone THEN manifests \ {m} ELSE manifests
      /\ IF gone THEN Withdraw(m, FALSE) ELSE withdrawn' = withdrawn
      /\ End(h)
      /\ UNCHANGED <<blob, tag, upload, object, gc, requests, faults, orphaned, seen>>

\* DELETE /api/v1/registry/repositories/:name/tags/:tag, the panel's way.
BeginDeleteTag(h, t) ==
  /\ tag[t] # None
  /\ Start(h, [NoRequest EXCEPT !.op = "deleteTag", !.at = "untag", !.m = tag[t], !.todo = {t}])
  /\ UNCHANGED <<tables, object, gc, faults, orphaned, seen, withdrawn>>

FindOtherTags(h) ==
  /\ At(h, "others")
  /\ IF Tagged(req[h].m) THEN End(h) ELSE GoTo(h, "deleteManifest")
  /\ UNCHANGED <<tables, object, gc, requests, faults, orphaned, seen, withdrawn>>

\* The tags forbid it, an index that lists the manifest does not.
DeleteUntagged(h) ==
  LET m == req[h].m
      gone == m \in manifests /\ ~Tagged(m)
  IN  /\ At(h, "deleteManifest")
      /\ manifests' = IF gone THEN manifests \ {m} ELSE manifests
      /\ IF gone THEN Withdraw(m, Parents(m) # {}) ELSE withdrawn' = withdrawn
      /\ End(h)
      /\ UNCHANGED <<blob, tag, upload, object, gc, requests, faults, orphaned, seen>>

-----------------------------------------------------------------------------
(* The collector: three lists, and what is on them one at a time.          *)

Stage(at, todo) == gc' = [at |-> at, todo |-> todo, hand |-> Nothing]
Drop(x) == gc' = [gc EXCEPT !.todo = @ \ {x}, !.hand = Nothing]

GcListUploads ==
  /\ gc.at = "idle"
  /\ Stage("uploads", {[o |-> upload[u].o, key |-> u] : u \in {v \in Sessions : upload[v].expired}})
  /\ UNCHANGED <<tables, object, req, requests, faults, orphaned, seen, withdrawn>>

\* unlinkBlobOid: an error passes over the row, which stays.
GcUnlink(x) ==
  /\ gc.at \in {"uploads", "blobs"} /\ gc.hand = Nothing /\ x \in gc.todo
  /\ IF Exists(x.o)
     THEN object' = Unlinked(x.o) /\ gc' = [gc EXCEPT !.hand = x]
     ELSE object' = object /\ Drop(x)
  /\ UNCHANGED <<tables, req, requests, faults, orphaned, seen, withdrawn>>

GcDeleteUpload(x) ==
  /\ gc.at = "uploads" /\ gc.hand = x
  /\ upload' = [upload EXCEPT ![x.key] = IF @.o = x.o THEN NoSession ELSE @]
  /\ Drop(x)
  /\ UNCHANGED <<blob, manifests, tag, object, req, requests, faults, orphaned, seen, withdrawn>>

OrphanManifests == {m \in manifests : ~Tagged(m) /\ Parents(m) = {}}

GcListManifests ==
  /\ gc.at = "uploads" /\ gc.todo = {}
  /\ Stage("manifests", OrphanManifests)
  /\ seen' = Held
  /\ UNCHANGED <<tables, object, req, requests, faults, orphaned, withdrawn>>

\* deleteRegistryManifest: only a tag set meanwhile forbids it.
GcDeleteManifest(m) ==
  /\ gc.at = "manifests" /\ m \in gc.todo
  /\ manifests' = IF Tagged(m) THEN manifests ELSE manifests \ {m}
  /\ IF m \in manifests /\ ~Tagged(m) THEN Withdraw(m, FALSE) ELSE withdrawn' = withdrawn
  /\ Drop(m)
  /\ UNCHANGED <<blob, tag, upload, object, req, requests, faults, orphaned, seen>>

\* Mistake: only what a tag reaches at once counts as referenced.
BlobsUntagged ==
  {d \in Digest : blob[d] # 0 /\ \A m \in manifests : Tagged(m) => d \notin Blobs(m)}

OrphanBlobs == {d \in Digest : blob[d] # 0 /\ \A m \in manifests : d \notin Blobs(m)}

GcListBlobs ==
  /\ gc.at = "manifests" /\ gc.todo = {}
  /\ Stage("blobs", {[o |-> blob[d], key |-> d] : d \in OrphanBlobs})
  /\ seen' = Held
  /\ UNCHANGED <<tables, object, req, requests, faults, orphaned, withdrawn>>

\* The row of the digest goes, though it may be another's by now.
GcDeleteBlob(x) ==
  /\ gc.at = "blobs" /\ gc.hand = x
  /\ blob' = [blob EXCEPT ![x.key] = 0]
  /\ orphaned' = orphaned \cup ({blob[x.key]} \ {0, x.o})
  /\ Withdraw(x.key, FALSE)
  /\ Drop(x)
  /\ UNCHANGED <<manifests, tag, upload, object, req, requests, faults, seen>>

GcEnd ==
  /\ gc.at = "blobs" /\ gc.todo = {}
  /\ gc' = IdleGc
  /\ UNCHANGED <<tables, object, req, requests, faults, orphaned, seen, withdrawn>>

-----------------------------------------------------------------------------
(* Crashes, and the next-state relation.                                   *)

InHand == {req[h].o : h \in Handler} \ {0}

\* The object a request is alone to know: it has no row yet, or no more.
Loses(h) == IF req[h].at \in {"session", "body", "row", "unlink"} THEN {req[h].o} ELSE {}

Fault == faults < MaxFaults /\ faults' = faults + 1

CrashApi ==
  /\ Fault
  /\ \E h \in Handler : req[h] # NoRequest
  /\ req' = [h \in Handler |-> NoRequest]
  /\ orphaned' = orphaned \cup UNION {Loses(h) : h \in Handler}
  /\ UNCHANGED <<tables, object, gc, requests, seen, withdrawn>>

\* A statement throws, and the handler with it; that of a last unlink is
\* swallowed.  At "body" it is the unlink of what did not arrive.
Fails(h) ==
  /\ Fault
  /\ req[h] # NoRequest
  /\ End(h)
  /\ orphaned' = orphaned \cup Loses(h)
  /\ UNCHANGED <<tables, object, gc, requests, seen, withdrawn>>

\* The unlinks of a PUT are swallowed too, and its session goes all the same.
UnlinkFails(h) ==
  /\ Fault
  /\ At(h, "reuse") \/ ((At(h, "empty") \/ At(h, "verify")) /\ Exists(req[h].o))
  /\ GoTo(h, "drop")
  /\ orphaned' = orphaned \cup {req[h].o}
  /\ UNCHANGED <<tables, object, gc, requests, seen, withdrawn>>

\* The collector stops, over a list that fails or for good,
CrashGc ==
  /\ Fault
  /\ gc.at # "idle" /\ gc' = IdleGc
  /\ UNCHANGED <<tables, object, req, requests, orphaned, seen, withdrawn>>

\* or an unlink or a DELETE fails, and it goes on with the next on its list.
GcFails ==
  /\ Fault
  /\ \E x \in gc.todo : gc.hand \in {Nothing, x} /\ Drop(x)
  /\ UNCHANGED <<tables, object, req, requests, orphaned, seen, withdrawn>>

UploadStep(h) ==
  \/ InsertSession(h) \/ WriteMonolithic(h) \/ InsertMonolithic(h)
  \/ WriteChunk(h) \/ EndBody(h) \/ UpdateReceived(h)
  \/ Verify(h) \/ CheckExisting(h) \/ ReuseBlob(h) \/ CommitBlob(h) \/ DropSession(h) \/ Unlink(h)
  \/ UnlinkFails(h)

ManifestStep(h) ==
  \/ DeleteBlobRow(h) \/ CheckReference(h) \/ InsertManifest(h) \/ UpsertTag(h)
  \/ ListTags(h) \/ Untag(h) \/ ReapManifest(h) \/ FindOtherTags(h) \/ DeleteUntagged(h)

Request(h) ==
  \/ BeginSession(h)
  \/ \E d \in Digest : BeginMonolithic(h, d) \/ BeginDeleteBlob(h, d)
  \/ \E u \in Upload : BeginPatch(h, u) \/ BeginComplete(h, u) \/ Cancel(h, u) \/ CancelElsewhere(h, u)
  \/ \E m \in Manifest : \E t \in Tag \cup {None} : BeginPut(h, m, t)
  \/ \E m \in Manifest : \E t \in Tag : BeginDeleteManifest(h, m, t)
  \/ \E t \in Tag : BeginDeleteTag(h, t)

GcStep ==
  \/ GcListUploads \/ GcListManifests \/ GcListBlobs \/ GcEnd
  \/ \E x \in gc.todo : GcUnlink(x) \/ GcDeleteUpload(x) \/ GcDeleteManifest(x) \/ GcDeleteBlob(x)

Step ==
  \/ \E h \in Handler : Request(h) \/ UploadStep(h) \/ ManifestStep(h)
  \/ \E u \in Upload : Expire(u)
  \/ GcStep
  \/ CrashApi \/ CrashGc \/ GcFails \/ \E h \in Handler : Fails(h)

\* The objects two parties have to do with.
GcObjects == IF gc.at \in {"uploads", "blobs"} THEN {x.o : x \in gc.todo} ELSE {}
Contended ==
  {o \in InHand :
     o \in GcObjects \/ \E h, k \in Handler : h # k /\ req[h].o = o /\ req[k].o = o}

\* Committed, and the session not deleted yet; unlinked, and the row not yet.
Committing == {req[h].o : h \in {k \in Handler : At(k, "drop") /\ blob[req[k].d] = req[k].o}}
Sweeping == IF gc.at = "blobs" THEN {gc.hand.o} ELSE {}

\* The objects over which a request or the collector stops there.
Torn == IF faults' > faults THEN (Committing \ Committing') \cup (Sweeping \ Sweeping') ELSE {}

Next == Step /\ shared' = shared \cup Contended' \cup Torn

Spec == Init /\ [][Next]_vars

-----------------------------------------------------------------------------
(* Properties.                                                             *)

Item == [o : 1 .. MaxObjects, key : Upload \cup Digest]

TypeOK ==
  /\ blob \in [Digest -> 0 .. Len(object)]
  /\ manifests \subseteq Manifest
  /\ tag \in [Tag -> Manifest \cup {None}]
  /\ upload \in [Upload -> [o : 0 .. Len(object), received : 0 .. 1, expired : BOOLEAN]]
  /\ object \in Seq(Digest \cup {Absent, Empty, Garbage}) /\ Len(object) <= MaxObjects
  /\ \A h \in Handler : req[h].o \in 0 .. Len(object)
  /\ gc.todo \subseteq CASE gc.at = "manifests" -> Manifest [] gc.at = "idle" -> {} [] OTHER -> Item
  /\ gc.hand \in gc.todo \cup {Nothing}
  /\ withdrawn \subseteq Digest \cup Manifest

\* getRegistryBlobMeta finds the row, and openBlobReadStream the bytes.
Servable(d) == blob[d] # 0 /\ object[blob[d]] = d

\* A committed blob is served with the bytes of its digest, unless
\* - two requests, or a request and the collector, worked on its object at once
\*   (a PUT repeated by an impatient client unlinks what the first committed);
\* - the request that committed it crashed before its session was deleted, or the
\*   deletion failed: the session still names the object, and a PUT or a PATCH of
\*   it, a DELETE or the collector once it has expired, writes or unlinks it;
\* - the collector has unlinked its object and not yet deleted its row, or crashed
\*   there, or the deletion failed.
BlobsReadable ==
  \A d \in Digest : blob[d] = 0 \/ Servable(d) \/ blob[d] \in shared \/ gc.hand.o = blob[d]

\* isManifestReachableInRepo: tagged there, or listed by one that is.
ReachableInRepo(r, m) ==
  \E t \in Tag : /\ Repo(t) = r
                 /\ tag[t] = m \/ (tag[t] \in manifests /\ m \in Children(tag[t]))

\* getRegistryManifestForRepo: what a pull of a digest from a repository finds.
FoundInRepo(r, m) == m \in manifests /\ ReachableInRepo(r, m)

Whole(r, m) ==
  \/ m \in withdrawn
  \/ FoundInRepo(r, m) /\ \A d \in Blobs(m) : blob[d] # 0 \/ d \in withdrawn

\* A tag can be pulled with all it refers to, unless a part of it was deleted
\* under the push that had seen it, or by a request that asks no one.
TagsPullable ==
  \A t \in Tag : tag[t] # None =>
    tag[t] \in manifests /\ \A m \in {tag[t]} \cup Children(tag[t]) : Whole(Repo(t), m)

\* An object has a row, a session, or a request that is to give it one or to
\* unlink it, unless
\* - another upload had committed the digest first (a whole blob in one request,
\*   or a PUT that had found no row);
\* - a deletion of a blob, or the collector, deleted by its digest a row that was
\*   newer than the object it had read and unlinks;
\* - a crash or a failing statement ended the one request that knew it;
\* - an unlink failed, and the failure was swallowed;
\* - its session was cancelled through another repository.
\* What is left so stays: the collector looks at rows only.
ObjectsOwned ==
  \A o \in 1 .. Len(object) :
    Exists(o) => \/ \E d \in Digest : blob[d] = o
                 \/ \E u \in Sessions : upload[u].o = o
                 \/ \E h \in Handler : o \in Loses(h)
                 \/ o \in orphaned

=============================================================================
