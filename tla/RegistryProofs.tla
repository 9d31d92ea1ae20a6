--------------------------- MODULE RegistryProofs ---------------------------
(***************************************************************************)
(* What the registry keeps whatever its handlers and its collector         *)
(* interleave, for any numbers of requests, digests and crashes: its types,*)
(* the tags that can be pulled, the bytes that have a row, and the blobs   *)
(* that are served.                                                        *)
(***************************************************************************)
EXTENDS Registry, Integers, SequenceTheorems, TLAPS

\* Where a request can be, by what it works on.
Making == {"session", "body", "row"}       \* an object that is nobody else's
Filling == {"write", "final", "received", "empty", "verify"}
Checked == {"exists", "insert", "reuse"}   \* an object of the right bytes
OfSession == Filling \cup Checked \cup {"drop"}
Completing == {"final", "empty", "verify"} \cup Checked \cup {"drop"}
Removing == {"deleteRow", "unlink"}
Holding == Making \cup OfSession \cup Removing
Putting == {"check", "insertManifest", "tag"}
Untagging == {"tags", "untag", "reap", "others", "deleteManifest"}

Ops == {None, "begin", "whole", "patch", "complete", "cancel", "deleteBlob", "put", "deleteManifest",
        "deleteTag"}

RequestType ==
  [op : Ops, at : Holding \cup Putting \cup Untagging \cup {None},
   u : Upload \cup {None}, o : Nat, d : Digest \cup {None}, m : Manifest \cup {None},
   t : Tag \cup {None}, todo : SUBSET (Digest \cup Manifest \cup Tag)]

RequestOK(r) ==
  /\ r \in RequestType
  /\ r.at \in OfSession => r.u \in Upload
  /\ r.at \in Completing \cup {"body", "row", "deleteRow"} => r.d \in Digest
  /\ r.at \in Holding <=> r.o # 0
  /\ r.at \in Putting <=> r.op = "put"
  /\ r.at \in Putting \cup Untagging => r.m \in Manifest
  /\ r.at = "untag" => r.todo \subseteq Tag

Requests == req \in [Handler -> RequestType] /\ \A h \in Handler : RequestOK(req[h])

UploadItem == [o : Nat \ {0}, key : Upload]
BlobItem == [o : Nat \ {0}, key : Digest]

GcOK(g) ==
  /\ g \in [at : {"idle", "uploads", "manifests", "blobs"},
            todo : SUBSET (Manifest \cup UploadItem \cup BlobItem),
            hand : UploadItem \cup BlobItem \cup {Nothing}]
  /\ g.at = "idle" => g.todo = {}
  /\ g.at = "uploads" => g.todo \subseteq UploadItem
  /\ g.at = "manifests" => g.todo \subseteq Manifest
  /\ g.at = "blobs" => g.todo \subseteq BlobItem
  /\ g.hand = Nothing \/ (g.at \in {"uploads", "blobs"} /\ g.hand \in g.todo)

SessionType == [o : Nat, received : 0 .. 1, expired : BOOLEAN]
Content == Digest \cup {Absent, Empty, Garbage}

Tables ==
  /\ blob \in [Digest -> Nat]
  /\ manifests \subseteq Manifest
  /\ tag \in [Tag -> Manifest \cup {None}]
  /\ upload \in [Upload -> SessionType]
  /\ \A u \in Upload : upload[u] # NoSession => upload[u].o # 0
  /\ object \in Seq(Content) /\ Len(object) <= MaxObjects
  /\ withdrawn \subseteq Digest \cup Manifest

\* Every object that something refers to was created.
Created ==
  /\ \A d \in Digest : blob[d] <= Len(object)
  /\ \A u \in Upload : upload[u].o <= Len(object)
  /\ \A h \in Handler : req[h].o <= Len(object)
  /\ \A o \in GcObjects : o <= Len(object)

IType == Tables /\ Requests /\ GcOK(gc) /\ Created

-----------------------------------------------------------------------------
\* A request goes on within what it works on, and keeps the rest of its state.
LEMMA Advance ==
  ASSUME NEW r, RequestOK(r), NEW at \in Holding \cup Putting \cup Untagging \cup {None},
         at # "untag",
         at \in OfSession => r.at \in OfSession,
         at \in Completing => r.at \in Completing,
         at \in {"body", "row", "deleteRow"} => r.at \in {"body", "row", "deleteRow"},
         at \in Holding <=> r.at \in Holding,
         at \in Putting <=> r.at \in Putting,
         at \in Untagging => r.at \in Untagging
  PROVE  LET n == [r EXCEPT !.at = at]
         IN  /\ RequestOK(n) /\ n.at = at
             /\ n.op = r.op /\ n.u = r.u /\ n.o = r.o /\ n.d = r.d /\ n.m = r.m /\ n.t = r.t
             /\ n.todo = r.todo
<1> DEFINE n == [r EXCEPT !.at = at]
<1>1. /\ n \in RequestType /\ n.at = at
      /\ n.op = r.op /\ n.u = r.u /\ n.o = r.o /\ n.d = r.d /\ n.m = r.m /\ n.t = r.t
      /\ n.todo = r.todo
  BY DEF RequestOK, RequestType
<1> HIDE DEF n
<1>2. RequestOK(n)
  BY <1>1 DEF RequestOK
<1> QED
  BY <1>1, <1>2 DEF n

\* A handler without a request holds nothing.
LEMMA Idle == RequestOK(NoRequest) /\ NoRequest.o = 0 /\ NoRequest.at = None /\ NoRequest.op = None
<1>1. NoRequest \in RequestType
  <2> DEFINE Ats == Holding \cup Putting \cup Untagging \cup {None}
             Todo == SUBSET (Digest \cup Manifest \cup Tag)
             U == Upload \cup {None}
             D == Digest \cup {None}
             M == Manifest \cup {None}
             T == Tag \cup {None}
  <2>1. None \in Ops
    BY DEF Ops
  <2>2. None \in Ats /\ None \in U /\ None \in D /\ None \in M /\ None \in T /\ {} \in Todo
    OBVIOUS
  <2>3. RequestType = [op : Ops, at : Ats, u : U, o : Nat, d : D, m : M, t : T, todo : Todo]
    BY DEF RequestType
  <2> HIDE DEF Ats, U, D, M, T, Todo
  <2> QED
    BY <2>1, <2>2, <2>3 DEF NoRequest
<1>2. NoRequest.o = 0 /\ NoRequest.at = None /\ NoRequest.op = None
  BY DEF NoRequest
<1> QED
  BY <1>1, <1>2 DEF RequestOK, None, Holding, Making, OfSession, Completing, Filling, Checked, Removing,
     Putting, Untagging

\* What a step of one request does to all of them.
LEMMA Replace ==
  ASSUME Requests, NEW h \in Handler, NEW r, RequestOK(r), req' = [req EXCEPT ![h] = r]
  PROVE  /\ Requests'
         /\ req'[h] = r /\ \A k \in Handler : k # h => req'[k] = req[k]
  BY DEF Requests, RequestOK

\* The three ways of a request: it begins, it goes on, it ends.
Others(h) == \A k \in Handler : k # h => req'[k] = req[k]

Began(h, at) == /\ Requests' /\ Others(h)
                /\ req[h] = NoRequest /\ req[h].o = 0 /\ req[h].at = None /\ req[h].op = None
                /\ req'[h].at = at

Stayed(h) == Requests' /\ Others(h) /\ req'[h] = req[h]

Went(h, at) == /\ Requests' /\ Others(h)
               /\ req'[h].at = at
               /\ req'[h].op = req[h].op /\ req'[h].u = req[h].u /\ req'[h].o = req[h].o
               /\ req'[h].d = req[h].d /\ req'[h].m = req[h].m /\ req'[h].t = req[h].t
               /\ req'[h].todo = req[h].todo

Ended(h) == /\ Requests' /\ Others(h)
            /\ req'[h] = NoRequest /\ req'[h].o = 0 /\ req'[h].at = None /\ req'[h].op = None

LEMMA Begins ==
  ASSUME Requests, NEW h \in Handler, NEW r, RequestOK(r), req[h] = NoRequest, req' = [req EXCEPT ![h] = r]
  PROVE  Began(h, r.at) /\ req'[h] = r
  BY Replace, Idle DEF Began, Others

LEMMA Ends ==
  ASSUME Requests, NEW h \in Handler, End(h)
  PROVE  Ended(h)
  BY Replace, Idle DEF End, Ended, Others

LEMMA Goes ==
  ASSUME Requests, NEW h \in Handler, NEW at \in Holding \cup Putting \cup Untagging \cup {None},
         at # "untag", GoTo(h, at),
         at \in OfSession => req[h].at \in OfSession,
         at \in Completing => req[h].at \in Completing,
         at \in {"body", "row", "deleteRow"} => req[h].at \in {"body", "row", "deleteRow"},
         at \in Holding <=> req[h].at \in Holding,
         at \in Putting <=> req[h].at \in Putting,
         at \in Untagging => req[h].at \in Untagging
  PROVE  Went(h, at)
<1> DEFINE n == [req[h] EXCEPT !.at = at]
<1>1. RequestOK(req[h])
  BY DEF Requests
<1>2. /\ RequestOK(n) /\ n.at = at
      /\ n.op = req[h].op /\ n.u = req[h].u /\ n.o = req[h].o /\ n.d = req[h].d /\ n.m = req[h].m
      /\ n.t = req[h].t /\ n.todo = req[h].todo
  BY <1>1, Advance
<1>3. req' = [req EXCEPT ![h] = n]
  BY DEF GoTo
<1> HIDE DEF n
<1> QED
  BY <1>2, <1>3, Replace DEF Went, Others

\* What each step of an upload or a deletion does to its request.
LEMMA Steps ==
  ASSUME Requests, NEW h \in Handler
  PROVE  /\ InsertSession(h) => Ended(h) /\ req[h].at = "session"
         /\ WriteMonolithic(h) => (Went(h, "row") \/ Ended(h)) /\ req[h].at = "body"
         /\ InsertMonolithic(h) => Ended(h) /\ req[h].at = "row"
         /\ WriteChunk(h) => Stayed(h) /\ req[h].at \in {"write", "final"}
         /\ EndBody(h) => /\ Went(h, "received") \/ Went(h, "verify") \/ Ended(h)
                          /\ req[h].at \in {"write", "final"}
         /\ UpdateReceived(h) => Ended(h) /\ req[h].at = "received"
         /\ Verify(h) => /\ Ended(h) \/ Went(h, "exists") \/ Went(h, "drop")
                         /\ req[h].at \in {"empty", "verify"}
         /\ CheckExisting(h) => (Went(h, "insert") \/ Went(h, "reuse")) /\ req[h].at = "exists"
         /\ ReuseBlob(h) => Went(h, "drop") /\ req[h].at = "reuse"
         /\ CommitBlob(h) => Went(h, "drop") /\ req[h].at = "insert"
         /\ DropSession(h) => Ended(h) /\ req[h].at = "drop"
         /\ Unlink(h) => Ended(h) /\ req[h].at = "unlink"
         /\ UnlinkFails(h) => Went(h, "drop") /\ req[h].at \in {"empty", "verify", "reuse"}
         /\ DeleteBlobRow(h) => Went(h, "unlink") /\ req[h].at = "deleteRow"
<1> USE DEF At
<1>a. \A at : GoTo(h, at) =>
        /\ at = "row" /\ req[h].at = "body" => Went(h, at)
        /\ at = "received" /\ req[h].at = "write" => Went(h, at)
        /\ at \in {"verify", "exists", "insert", "reuse", "drop"} /\ req[h].at \in Completing => Went(h, at)
        /\ at = "unlink" /\ req[h].at = "deleteRow" => Went(h, at)
  <2> SUFFICES ASSUME NEW at, GoTo(h, at)
               PROVE  /\ at = "row" /\ req[h].at = "body" => Went(h, at)
                      /\ at = "received" /\ req[h].at = "write" => Went(h, at)
                      /\ at \in {"verify", "exists", "insert", "reuse", "drop"} /\ req[h].at \in Completing
                           => Went(h, at)
                      /\ at = "unlink" /\ req[h].at = "deleteRow" => Went(h, at)
    OBVIOUS
  <2> USE DEF Holding, Making, OfSession, Completing, Filling, Checked, Removing, Putting, Untagging
  <2>1. ASSUME at = "row", req[h].at = "body" PROVE Went(h, at)
    BY <2>1, Goes
  <2>2. ASSUME at \in {"verify", "exists", "insert", "reuse", "drop"}, req[h].at \in Completing
        PROVE  Went(h, at)
    BY <2>2, Goes
  <2>3. ASSUME at = "unlink", req[h].at = "deleteRow" PROVE Went(h, at)
    BY <2>3, Goes
  <2>4. ASSUME at = "received", req[h].at = "write" PROVE Went(h, at)
    BY <2>4, Goes
  <2> QED
    BY <2>1, <2>2, <2>3, <2>4
<1>b. {"final", "empty", "verify", "exists", "insert", "reuse", "drop"} = Completing
  BY DEF Completing, Checked
<1>1. InsertSession(h) => Ended(h) /\ req[h].at = "session"
  BY Ends DEF InsertSession
<1>2. WriteMonolithic(h) => (Went(h, "row") \/ Ended(h)) /\ req[h].at = "body"
  BY <1>a, Ends DEF WriteMonolithic
<1>3. InsertMonolithic(h) => Ended(h) /\ req[h].at = "row"
  BY Ends DEF InsertMonolithic
<1>4. WriteChunk(h) => Stayed(h) /\ req[h].at \in {"write", "final"}
  BY DEF WriteChunk, Stayed, Others, Requests
<1>13. EndBody(h) => /\ Went(h, "received") \/ Went(h, "verify") \/ Ended(h)
                     /\ req[h].at \in {"write", "final"}
  BY <1>a, <1>b, Ends DEF EndBody
<1>14. UnlinkFails(h) => Went(h, "drop") /\ req[h].at \in {"empty", "verify", "reuse"}
  BY <1>a, <1>b DEF UnlinkFails
<1>5. UpdateReceived(h) => Ended(h) /\ req[h].at = "received"
  BY Ends DEF UpdateReceived
<1>6. Verify(h) => /\ Ended(h) \/ Went(h, "exists") \/ Went(h, "drop")
                   /\ req[h].at \in {"empty", "verify"}
  BY <1>a, <1>b, Ends DEF Verify
<1>7. CheckExisting(h) => (Went(h, "insert") \/ Went(h, "reuse")) /\ req[h].at = "exists"
  BY <1>a, <1>b DEF CheckExisting
<1>8. ReuseBlob(h) => Went(h, "drop") /\ req[h].at = "reuse"
  BY <1>a, <1>b DEF ReuseBlob
<1>9. CommitBlob(h) => Went(h, "drop") /\ req[h].at = "insert"
  BY <1>a, <1>b DEF CommitBlob
<1>10. DropSession(h) => Ended(h) /\ req[h].at = "drop"
  BY Ends DEF DropSession
<1>11. Unlink(h) => Ended(h) /\ req[h].at = "unlink"
  BY Ends DEF Unlink
<1>12. DeleteBlobRow(h) => Went(h, "unlink") /\ req[h].at = "deleteRow"
  BY <1>a DEF DeleteBlobRow
<1> QED
  BY <1>1, <1>2, <1>3, <1>4, <1>5, <1>6, <1>7, <1>8, <1>9, <1>10, <1>11, <1>12, <1>13, <1>14

\* A step of a manifest or of a tag; one of a list is struck off it.
Struck(h, at, x) == /\ Requests' /\ Others(h)
                    /\ req'[h].at = at
                    /\ req'[h].op = req[h].op /\ req'[h].o = req[h].o /\ req'[h].m = req[h].m
                    /\ req'[h].todo = req[h].todo \ {x}

LEMMA Strikes ==
  ASSUME Requests, NEW h \in Handler, NEW x, NEW at,
         \/ req[h].at = "check" /\ at = "check"
         \/ req[h].at = "untag" /\ at \in {"untag", "reap", "others"},
         req' = [req EXCEPT ![h] = [req[h] EXCEPT !.todo = req[h].todo \ {x}, !.at = at]]
  PROVE  Struck(h, at, x)
<1> DEFINE n == [req[h] EXCEPT !.todo = req[h].todo \ {x}, !.at = at]
<1>1. RequestOK(req[h]) /\ req[h] \in RequestType
  BY DEF Requests
<1>2. at \in Holding \cup Putting \cup Untagging \cup {None}
  BY DEF Putting, Untagging
<1>3. req[h].todo \ {x} \in SUBSET (Digest \cup Manifest \cup Tag)
  BY <1>1 DEF RequestType
<1>4. /\ n \in RequestType /\ n.at = at /\ n.op = req[h].op /\ n.u = req[h].u /\ n.o = req[h].o
      /\ n.d = req[h].d /\ n.m = req[h].m /\ n.t = req[h].t /\ n.todo = req[h].todo \ {x}
  BY <1>1, <1>2, <1>3 DEF RequestType
<1> HIDE DEF n
<1>5. RequestOK(n)
  BY <1>1, <1>4 DEF RequestOK, Holding, Making, OfSession, Completing, Filling, Checked, Removing, Putting, Untagging
<1>6. req' = [req EXCEPT ![h] = n]
  BY DEF n
<1> QED
  BY <1>4, <1>5, <1>6, Replace DEF Struck, Others

\* The tags of a manifest are listed.
LEMMA Listing ==
  ASSUME Requests, NEW h \in Handler, NEW todo \in SUBSET Tag, NEW at \in {"untag", "reap"},
         req[h].at = "tags", req' = [req EXCEPT ![h] = [req[h] EXCEPT !.todo = todo, !.at = at]]
  PROVE  Requests' /\ Others(h) /\ req'[h].at = at /\ req'[h].op = req[h].op /\ req'[h].o = req[h].o
<1> DEFINE n == [req[h] EXCEPT !.todo = todo, !.at = at]
<1>1. RequestOK(req[h]) /\ req[h] \in RequestType
  BY DEF Requests
<1>2. at \in Holding \cup Putting \cup Untagging \cup {None} /\ todo \in SUBSET (Digest \cup Manifest \cup Tag)
  BY DEF Putting, Untagging
<1>3. /\ n \in RequestType /\ n.at = at /\ n.op = req[h].op /\ n.u = req[h].u /\ n.o = req[h].o
      /\ n.d = req[h].d /\ n.m = req[h].m /\ n.t = req[h].t /\ n.todo = todo
  BY <1>1, <1>2 DEF RequestType
<1>4. req' = [req EXCEPT ![h] = n]
  OBVIOUS
<1> HIDE DEF n
<1>5. RequestOK(n)
  BY <1>1, <1>3 DEF RequestOK, Holding, Making, OfSession, Completing, Filling, Checked, Removing, Putting,
     Untagging
<1> QED
  BY <1>3, <1>4, <1>5, Replace DEF Others

LEMMA TagSteps ==
  ASSUME Requests, NEW h \in Handler
  PROVE  /\ CheckReference(h) =>
              /\ req[h].at = "check"
              /\ \/ Ended(h) /\ seen' = seen
                 \/ Went(h, "insertManifest") /\ req[h].todo = {} /\ seen' = seen
                 \/ \E x : Known(x) /\ Struck(h, "check", x) /\ seen' = seen \cup {x}
         /\ InsertManifest(h) => (Ended(h) \/ Went(h, "tag")) /\ req[h].at = "insertManifest"
         /\ UpsertTag(h) => Ended(h) /\ req[h].at = "tag"
         /\ ListTags(h) => /\ Requests' /\ Others(h) /\ req[h].at = "tags"
                           /\ req'[h].at \in {"untag", "reap"} /\ req'[h].op = req[h].op /\ req'[h].o = req[h].o
         /\ Untag(h) => /\ req[h].at = "untag"
                        /\ \E t, at : Struck(h, at, t) /\ tag' = [tag EXCEPT ![t] = None] /\ at \in Untagging
         /\ ReapManifest(h) => Ended(h) /\ req[h].at = "reap"
         /\ FindOtherTags(h) => (Ended(h) \/ Went(h, "deleteManifest")) /\ req[h].at = "others"
         /\ DeleteUntagged(h) => Ended(h) /\ req[h].at = "deleteManifest"
<1> USE DEF At
<1>a. \A at : GoTo(h, at) =>
        /\ at = "insertManifest" /\ req[h].at = "check" => Went(h, at)
        /\ at = "tag" /\ req[h].at = "insertManifest" => Went(h, at)
        /\ at = "deleteManifest" /\ req[h].at = "others" => Went(h, at)
  <2> SUFFICES ASSUME NEW at, GoTo(h, at)
               PROVE  /\ at = "insertManifest" /\ req[h].at = "check" => Went(h, at)
                      /\ at = "tag" /\ req[h].at = "insertManifest" => Went(h, at)
                      /\ at = "deleteManifest" /\ req[h].at = "others" => Went(h, at)
    OBVIOUS
  <2> USE DEF Holding, Making, OfSession, Completing, Filling, Checked, Removing, Putting, Untagging
  <2>1. ASSUME at = "insertManifest", req[h].at = "check" PROVE Went(h, at)
    BY <2>1, Goes
  <2>2. ASSUME at = "tag", req[h].at = "insertManifest" PROVE Went(h, at)
    BY <2>2, Goes
  <2>3. ASSUME at = "deleteManifest", req[h].at = "others" PROVE Went(h, at)
    BY <2>3, Goes
  <2> QED
    BY <2>1, <2>2, <2>3
<1>1. ASSUME CheckReference(h)
      PROVE  /\ req[h].at = "check"
             /\ \/ Ended(h) /\ seen' = seen
                \/ Went(h, "insertManifest") /\ req[h].todo = {} /\ seen' = seen
                \/ \E x : Known(x) /\ Struck(h, "check", x) /\ seen' = seen \cup {x}
  <2>1. req[h].at = "check"
    BY <1>1 DEF CheckReference
  <2>2. CASE req[h].todo = {} /\ GoTo(h, "insertManifest") /\ seen' = seen
    BY <2>1, <2>2, <1>a
  <2>3. ASSUME NEW x, Known(x), req' = [req EXCEPT ![h].todo = @ \ {x}], seen' = seen \cup {x}
        PROVE  Struck(h, "check", x)
    <3>1. req \in [Handler -> RequestType] /\ req[h] \in RequestType
      BY DEF Requests
    <3>2. [req[h] EXCEPT !.todo = req[h].todo \ {x}, !.at = "check"] = [req[h] EXCEPT !.todo = req[h].todo \ {x}]
      BY <2>1, <3>1 DEF RequestType
    <3>3. req' = [req EXCEPT ![h] = [req[h] EXCEPT !.todo = req[h].todo \ {x}, !.at = "check"]]
      BY <2>3, <3>2
    <3> QED
      BY <2>1, <3>3, Strikes
  <2>4. CASE End(h) /\ seen' = seen
    BY <2>1, <2>4, Ends
  <2> QED
    BY <1>1, <2>1, <2>2, <2>3, <2>4 DEF CheckReference
<1>2. InsertManifest(h) => (Ended(h) \/ Went(h, "tag")) /\ req[h].at = "insertManifest"
  BY <1>a, Ends DEF InsertManifest
<1>3. UpsertTag(h) => Ended(h) /\ req[h].at = "tag"
  BY Ends DEF UpsertTag
<1>4. ASSUME Untag(h)
      PROVE  /\ req[h].at = "untag"
             /\ \E t, at : Struck(h, at, t) /\ tag' = [tag EXCEPT ![t] = None] /\ at \in Untagging
  <2>1. req[h].at = "untag"
    BY <1>4 DEF Untag
  <2>2. PICK t \in req[h].todo :
          /\ tag' = [tag EXCEPT ![t] = None]
          /\ req' = [req EXCEPT ![h].todo = @ \ {t},
                                ![h].at = IF req[h].todo # {t} THEN @
                                          ELSE IF req[h].op = "deleteTag" THEN "others" ELSE "reap"]
    BY <1>4 DEF Untag
  <2> DEFINE at == IF req[h].todo # {t} THEN "untag" ELSE IF req[h].op = "deleteTag" THEN "others" ELSE "reap"
  <2>3. req' = [req EXCEPT ![h] = [req[h] EXCEPT !.todo = req[h].todo \ {t}, !.at = at]]
    <3>1. req \in [Handler -> RequestType] /\ req[h] \in RequestType
      BY DEF Requests
    <3> QED
      BY <2>1, <2>2, <3>1 DEF RequestType
  <2>4. at \in {"untag", "reap", "others"}
    OBVIOUS
  <2> HIDE DEF at
  <2>5. Struck(h, at, t)
    BY <2>1, <2>3, <2>4, Strikes
  <2> QED
    BY <2>1, <2>2, <2>4, <2>5 DEF Untagging
<1>8. ASSUME ListTags(h)
      PROVE  /\ Requests' /\ Others(h) /\ req[h].at = "tags"
             /\ req'[h].at \in {"untag", "reap"} /\ req'[h].op = req[h].op /\ req'[h].o = req[h].o
  <2> DEFINE pointing == {t \in Tag : Repo(t) = Repo(req[h].t) /\ tag[t] = req[h].m}
             at == IF pointing = {} THEN "reap" ELSE "untag"
  <2>1. req[h].at = "tags" /\ req' = [req EXCEPT ![h].todo = pointing, ![h].at = at]
    BY <1>8 DEF ListTags
  <2>2. pointing \in SUBSET Tag /\ at \in {"untag", "reap"}
    OBVIOUS
  <2> HIDE DEF pointing, at
  <2>3. req' = [req EXCEPT ![h] = [req[h] EXCEPT !.todo = pointing, !.at = at]]
    <3>1. req \in [Handler -> RequestType] /\ req[h] \in RequestType
      BY DEF Requests
    <3> QED
      BY <2>1, <3>1 DEF RequestType
  <2>4. Requests' /\ Others(h) /\ req'[h].at = at /\ req'[h].op = req[h].op /\ req'[h].o = req[h].o
    BY <2>1, <2>2, <2>3, Listing
  <2> QED
    BY <2>1, <2>2, <2>4
<1>5. ReapManifest(h) => Ended(h) /\ req[h].at = "reap"
  BY Ends DEF ReapManifest
<1>6. FindOtherTags(h) => (Ended(h) \/ Went(h, "deleteManifest")) /\ req[h].at = "others"
  BY <1>a, Ends DEF FindOtherTags
<1>7. DeleteUntagged(h) => Ended(h) /\ req[h].at = "deleteManifest"
  BY Ends DEF DeleteUntagged
<1> QED
  BY <1>1, <1>2, <1>3, <1>4, <1>5, <1>6, <1>7, <1>8

-----------------------------------------------------------------------------
\* What a request begins with.
LEMMA Beginnings ==
  ASSUME Tables, Requests, NEW h \in Handler
  PROVE  /\ BeginSession(h) => /\ Began(h, "session") /\ req'[h].o = Len(object) + 1
         /\ \A d \in Digest :
              /\ BeginMonolithic(h, d) => /\ Began(h, "body") /\ req'[h].o = Len(object) + 1
              /\ BeginDeleteBlob(h, d) =>
                   /\ Began(h, "deleteRow") /\ req'[h].o = blob[d] /\ req'[h].d = d /\ blob[d] # 0
         /\ \A u \in Upload :
              /\ BeginPatch(h, u) \/ BeginComplete(h, u) =>
                   /\ \E at \in Filling : Began(h, at)
                   /\ req'[h].o = upload[u].o /\ req'[h].u = u /\ upload[u].o # 0
              /\ Cancel(h, u) => /\ Began(h, "unlink") /\ req'[h].o = upload[u].o /\ upload[u].o # 0
              /\ CancelElsewhere(h, u) => Stayed(h) /\ req[h] = NoRequest /\ upload[u].o # 0
         /\ \A m \in Manifest :
              /\ \A t \in Tag \cup {None} :
                   BeginPut(h, m, t) => /\ Began(h, "check") /\ req'[h].op = "put" /\ req'[h].o = 0
                                        /\ req'[h].m = m /\ req'[h].todo = Blobs(m) \cup Children(m)
              /\ \A t \in Tag : BeginDeleteManifest(h, m, t) =>
                   Began(h, "tags") /\ req'[h].op = "deleteManifest" /\ req'[h].o = 0
         /\ \A t \in Tag : BeginDeleteTag(h, t) =>
              Began(h, "untag") /\ req'[h].op = "deleteTag" /\ req'[h].o = 0
<1> USE ReferencesAssumption
<1>N. /\ None \in Upload \cup {None} /\ None \in Digest \cup {None} /\ None \in Manifest \cup {None}
      /\ None \in Tag \cup {None} /\ {} \in SUBSET (Digest \cup Manifest \cup Tag)
  OBVIOUS
<1>L. Len(object) + 1 \in Nat /\ Len(object) + 1 # 0
  BY DEF Tables
<1>U. ASSUME NEW u \in Upload PROVE upload[u].o \in Nat /\ (u \in Sessions => upload[u].o # 0)
  BY DEF Tables, SessionType, Sessions
<1>S. /\ {"session", "body", "deleteRow", "write", "final", "empty", "verify", "unlink"} \subseteq Holding
      /\ {"write", "final", "empty", "verify"} \subseteq Filling
      /\ "check" \in Putting /\ "untag" \in Untagging /\ "tags" \in Untagging
      /\ {"begin", "whole", "patch", "complete", "cancel", "deleteBlob", "put", "deleteManifest",
          "deleteTag"} \subseteq Ops
  BY DEF Ops, Holding, Making, OfSession, Completing, Filling, Checked, Removing, Putting, Untagging, None
<1>1. ASSUME BeginSession(h)
      PROVE  Began(h, "session") /\ req'[h].o = Len(object) + 1
  <2>1. Len(object') = Len(object) + 1
    BY <1>1, AppendProperties DEF BeginSession, Create, Tables, Content
  <2> DEFINE r == [NoRequest EXCEPT !.op = "begin", !.at = "session", !.d = None, !.o = Len(object')]
  <2>a. r \in RequestType
    BY <1>1, <1>N, <1>L, <1>S, <2>1 DEF RequestType, NoRequest
  <2>b. req[h] = NoRequest /\ req' = [req EXCEPT ![h] = r]
    BY <1>1, <1>N, <1>L, <1>S, <2>1 DEF BeginSession, Create, Start
  <2>c. /\ r.op = "begin" /\ r.at = "session" /\ r.u = None /\ r.o = Len(object) + 1 /\ r.d = None /\ r.m = None
        /\ r.todo = {}
    BY <2>1 DEF NoRequest
  <2> HIDE DEF r
  <2>d. RequestOK(r)
    BY <1>1, <1>N, <1>L, <1>S, <2>1, <2>a, <2>c DEF RequestOK, Ops, Holding, Making, OfSession, Completing,
       Filling, Checked, Removing, Putting, Untagging, None
  <2> QED
    BY <2>b, <2>c, <2>d, <2>1, <1>S, Begins DEF Began
<1>2. ASSUME NEW d \in Digest, BeginMonolithic(h, d)
      PROVE  Began(h, "body") /\ req'[h].o = Len(object) + 1
  <2>1. Len(object') = Len(object) + 1
    BY <1>2, AppendProperties DEF BeginMonolithic, Create, Tables, Content
  <2> DEFINE r == [NoRequest EXCEPT !.op = "whole", !.at = "body", !.d = d, !.o = Len(object')]
  <2>a. r \in RequestType
    BY <1>2, <1>N, <1>L, <1>S, <2>1 DEF RequestType, NoRequest
  <2>b. req[h] = NoRequest /\ req' = [req EXCEPT ![h] = r]
    BY <1>2, <1>N, <1>L, <1>S, <2>1 DEF BeginMonolithic, Create, Start
  <2>c. /\ r.op = "whole" /\ r.at = "body" /\ r.u = None /\ r.o = Len(object) + 1 /\ r.d = d /\ r.m = None
        /\ r.todo = {}
    BY <2>1 DEF NoRequest
  <2> HIDE DEF r
  <2>d. RequestOK(r)
    BY <1>2, <1>N, <1>L, <1>S, <2>1, <2>a, <2>c DEF RequestOK, Ops, Holding, Making, OfSession, Completing,
       Filling, Checked, Removing, Putting, Untagging, None
  <2> QED
    BY <2>b, <2>c, <2>d, <2>1, <1>S, Begins DEF Began
<1>3. ASSUME NEW d \in Digest, BeginDeleteBlob(h, d)
      PROVE  Began(h, "deleteRow") /\ req'[h].o = blob[d] /\ req'[h].d = d /\ blob[d] # 0
  <2>1. blob[d] \in Nat /\ blob[d] # 0
    BY <1>3 DEF BeginDeleteBlob, Tables
  <2> DEFINE r == [NoRequest EXCEPT !.op = "deleteBlob", !.at = "deleteRow", !.d = d, !.o = blob[d]]
  <2>a. r \in RequestType
    BY <1>3, <1>N, <1>S, <2>1 DEF RequestType, NoRequest
  <2>b. req[h] = NoRequest /\ req' = [req EXCEPT ![h] = r]
    BY <1>3, <1>N, <1>S, <2>1 DEF BeginDeleteBlob, Start
  <2>c. /\ r.op = "deleteBlob" /\ r.at = "deleteRow" /\ r.u = None /\ r.o = blob[d] /\ r.d = d /\ r.m = None
        /\ r.todo = {}
    BY <2>1 DEF NoRequest
  <2> HIDE DEF r
  <2>d. RequestOK(r)
    BY <1>3, <1>N, <1>S, <2>1, <2>a, <2>c DEF RequestOK, Ops, Holding, Making, OfSession, Completing, Filling,
       Checked, Removing, Putting, Untagging, None
  <2> QED
    BY <2>b, <2>c, <2>d, <2>1, <1>S, Begins DEF Began
<1>4. ASSUME NEW u \in Upload, BeginPatch(h, u)
      PROVE  /\ \E at \in Filling : Began(h, at)
             /\ req'[h].o = upload[u].o /\ req'[h].u = u /\ upload[u].o # 0
  <2>1. upload[u].o \in Nat /\ upload[u].o # 0
    BY <1>4, <1>U DEF BeginPatch, ReadSession
  <2> DEFINE r == [NoRequest EXCEPT !.op = "patch", !.at = "write", !.u = u, !.d = None, !.o = upload[u].o]
  <2>a. r \in RequestType
    BY <1>N, <1>S, <2>1 DEF RequestType, NoRequest
  <2>b. req[h] = NoRequest /\ req' = [req EXCEPT ![h] = r]
    BY <1>4, <1>N, <1>S, <2>1 DEF BeginPatch, ReadSession, Start
  <2>c. /\ r.op = "patch" /\ r.at = "write" /\ r.u = u /\ r.o = upload[u].o /\ r.d = None /\ r.m = None
        /\ r.todo = {}
    BY <2>1 DEF NoRequest
  <2> HIDE DEF r
  <2>d. RequestOK(r)
    BY <1>N, <1>S, <2>1, <2>a, <2>c DEF RequestOK, Ops, Holding, Making, OfSession, Completing, Filling,
       Checked, Removing, Putting, Untagging, None
  <2>e. Began(h, "write") /\ req'[h] = r
    BY <2>b, <2>c, <2>d, Begins DEF Began
  <2> QED
    BY <1>S, <2>1, <2>c, <2>e
<1>5. ASSUME NEW u \in Upload, BeginComplete(h, u)
      PROVE  /\ \E at \in Filling : Began(h, at)
             /\ req'[h].o = upload[u].o /\ req'[h].u = u /\ upload[u].o # 0
  <2>1. upload[u].o \in Nat /\ upload[u].o # 0
    BY <1>5, <1>U DEF BeginComplete, ReadSession
  <2>2. PICK d \in Digest, at \in {"final", "empty", "verify"} : ReadSession(h, u, "complete", at, d)
    BY <1>5 DEF BeginComplete
  <2>3. at \in {"final", "empty", "verify"} /\ ReadSession(h, u, "complete", at, d)
    BY <2>2
  <2> DEFINE r == [NoRequest EXCEPT !.op = "complete", !.at = at, !.u = u, !.d = d, !.o = upload[u].o]
  <2>a. r \in RequestType
    BY <1>N, <1>S, <2>1, <2>3 DEF RequestType, NoRequest
  <2>b. req[h] = NoRequest /\ req' = [req EXCEPT ![h] = r]
    BY <1>N, <1>S, <2>1, <2>3 DEF ReadSession, Start
  <2>c. /\ r.op = "complete" /\ r.at = at /\ r.u = u /\ r.o = upload[u].o /\ r.d = d /\ r.m = None
        /\ r.todo = {}
    BY <2>1 DEF NoRequest
  <2> HIDE DEF r
  <2>d. RequestOK(r)
    BY <1>N, <1>S, <2>1, <2>3, <2>a, <2>c DEF RequestOK, Ops, Holding, Making, OfSession, Completing, Filling,
       Checked, Removing, Putting, Untagging, None
  <2>e. Began(h, at) /\ req'[h] = r
    BY <2>b, <2>c, <2>d, Begins DEF Began
  <2>f. at \in Filling
    BY <1>S
  <2> QED
    BY <2>1, <2>c, <2>e, <2>f
<1>6. ASSUME NEW u \in Upload, Cancel(h, u)
      PROVE  Began(h, "unlink") /\ req'[h].o = upload[u].o /\ upload[u].o # 0
  <2>1. upload[u].o \in Nat /\ upload[u].o # 0
    BY <1>6, <1>U DEF Cancel
  <2> DEFINE r == [NoRequest EXCEPT !.op = "cancel", !.at = "unlink", !.o = upload[u].o]
  <2>a. r \in RequestType
    BY <1>6, <1>N, <1>S, <2>1 DEF RequestType, NoRequest
  <2>b. req[h] = NoRequest /\ req' = [req EXCEPT ![h] = r]
    BY <1>6, <1>N, <1>S, <2>1 DEF Cancel, Start
  <2>c. /\ r.op = "cancel" /\ r.at = "unlink" /\ r.u = None /\ r.o = upload[u].o /\ r.d = None /\ r.m = None
        /\ r.todo = {}
    BY <2>1 DEF NoRequest
  <2> HIDE DEF r
  <2>d. RequestOK(r)
    BY <1>6, <1>N, <1>S, <2>1, <2>a, <2>c DEF RequestOK, Ops, Holding, Making, OfSession, Completing, Filling,
       Checked, Removing, Putting, Untagging, None
  <2> QED
    BY <2>b, <2>c, <2>d, <2>1, <1>S, Begins DEF Began
<1>7. ASSUME NEW m \in Manifest, NEW t \in Tag \cup {None}, BeginPut(h, m, t)
      PROVE  /\ Began(h, "check") /\ req'[h].op = "put" /\ req'[h].o = 0
             /\ req'[h].m = m /\ req'[h].todo = Blobs(m) \cup Children(m)
  <2> DEFINE todo == Blobs(m) \cup Children(m)
  <2>1. todo \in SUBSET (Digest \cup Manifest \cup Tag)
    OBVIOUS
  <2> DEFINE r == [NoRequest EXCEPT !.op = "put", !.at = "check", !.m = m, !.t = t, !.todo = todo]
  <2>a. r \in RequestType
    BY <1>7, <1>N, <1>S, <2>1 DEF RequestType, NoRequest
  <2>b. req[h] = NoRequest /\ req' = [req EXCEPT ![h] = r]
    BY <1>7, <1>N, <1>S, <2>1 DEF BeginPut, Start
  <2>c. /\ r.op = "put" /\ r.at = "check" /\ r.u = None /\ r.o = 0 /\ r.d = None /\ r.m = m
        /\ r.todo = todo
    BY <2>1 DEF NoRequest
  <2> HIDE DEF r
  <2>d. RequestOK(r)
    BY <1>7, <1>N, <1>S, <2>1, <2>a, <2>c DEF RequestOK, Ops, Holding, Making, OfSession, Completing, Filling,
       Checked, Removing, Putting, Untagging, None
  <2> QED
    BY <2>b, <2>c, <2>d, <2>1, <1>S, Begins DEF Began
<1>8. ASSUME NEW m \in Manifest, NEW t \in Tag, BeginDeleteManifest(h, m, t)
      PROVE  Began(h, "tags") /\ req'[h].op = "deleteManifest" /\ req'[h].o = 0
  <2> DEFINE r == [NoRequest EXCEPT !.op = "deleteManifest", !.at = "tags", !.m = m, !.t = t]
  <2>a. r \in RequestType
    BY <1>8, <1>N, <1>S DEF RequestType, NoRequest
  <2>b. req[h] = NoRequest /\ req' = [req EXCEPT ![h] = r]
    BY <1>8, <1>N, <1>S DEF BeginDeleteManifest, Start
  <2>c. /\ r.op = "deleteManifest" /\ r.at = "tags" /\ r.u = None /\ r.o = 0 /\ r.d = None /\ r.m = m
        /\ r.todo = {}
    BY DEF NoRequest
  <2> HIDE DEF r
  <2>d. RequestOK(r)
    BY <1>8, <1>N, <1>S, <2>a, <2>c DEF RequestOK, Ops, Holding, Making, OfSession, Completing, Filling,
       Checked, Removing, Putting, Untagging, None
  <2> QED
    BY <2>b, <2>c, <2>d, <1>S, Begins DEF Began
<1>9. ASSUME NEW t \in Tag, BeginDeleteTag(h, t)
      PROVE  Began(h, "untag") /\ req'[h].op = "deleteTag" /\ req'[h].o = 0
  <2>1. {t} \in SUBSET (Digest \cup Manifest \cup Tag) /\ tag[t] \in Manifest
    BY <1>9 DEF BeginDeleteTag, Tables
  <2> DEFINE r == [NoRequest EXCEPT !.op = "deleteTag", !.at = "untag", !.m = tag[t], !.todo = {t}]
  <2>a. r \in RequestType
    BY <1>9, <1>N, <1>S, <2>1 DEF RequestType, NoRequest
  <2>b. req[h] = NoRequest /\ req' = [req EXCEPT ![h] = r]
    BY <1>9, <1>N, <1>S, <2>1 DEF BeginDeleteTag, Start
  <2>c. /\ r.op = "deleteTag" /\ r.at = "untag" /\ r.u = None /\ r.o = 0 /\ r.d = None /\ r.m = tag[t]
        /\ r.todo = {t}
    BY <2>1 DEF NoRequest
  <2> HIDE DEF r
  <2>d. RequestOK(r)
    BY <1>9, <1>N, <1>S, <2>1, <2>a, <2>c DEF RequestOK, Ops, Holding, Making, OfSession, Completing, Filling,
       Checked, Removing, Putting, Untagging, None
  <2> QED
    BY <2>b, <2>c, <2>d, <2>1, <1>S, Begins DEF Began
<1>10. ASSUME NEW u \in Upload, CancelElsewhere(h, u)
       PROVE  Stayed(h) /\ req[h] = NoRequest /\ upload[u].o # 0
  <2>1. upload[u].o # 0
    BY <1>10, <1>U DEF CancelElsewhere
  <2>2. req[h] = NoRequest /\ req' = [req EXCEPT ![h] = NoRequest]
    BY <1>10 DEF CancelElsewhere, Start
  <2> QED
    BY <2>1, <2>2, Idle, Replace DEF Stayed, Others
<1> QED
  BY <1>1, <1>2, <1>3, <1>4, <1>5, <1>6, <1>7, <1>8, <1>9, <1>10

-----------------------------------------------------------------------------
\* A request that holds an object holds one that was created.
LEMMA Holds ==
  ASSUME IType, NEW h \in Handler, req[h].at \in Holding
  PROVE  req[h].o \in 1 .. Len(object)
<1>1. RequestOK(req[h]) /\ req[h].o \in Nat
  BY DEF IType, Requests, RequestType
<1>2. req[h].o # 0 /\ req[h].o <= Len(object) /\ Len(object) \in Nat
  BY <1>1 DEF RequestOK, IType, Created, Tables
<1> QED
  BY <1>1, <1>2

\* Writing one object leaves the others.
LEMMA Writes ==
  ASSUME Tables, NEW o \in 1 .. Len(object), NEW c \in Content, object' = [object EXCEPT ![o] = c]
  PROVE  /\ object' \in Seq(Content) /\ Len(object') = Len(object)
         /\ object'[o] = c /\ \A p \in 1 .. Len(object) : p # o => object'[p] = object[p]
  BY ExceptSeq DEF Tables

\* A row is inserted, or nothing is.
LEMMA Inserts ==
  ASSUME blob \in [Digest -> Nat], NEW d, NEW o \in Nat, InsertRow(d, o)
  PROVE  /\ blob' \in [Digest -> Nat]
         /\ \A e \in Digest : e # d => blob'[e] = blob[e]
         /\ d \in Digest => blob'[d] = IF blob[d] = 0 THEN o ELSE blob[d]
<1>1. CASE blob[d] = 0
  BY <1>1 DEF InsertRow
<1>2. CASE blob[d] # 0
  BY <1>2 DEF InsertRow
<1> QED
  BY <1>1, <1>2

\* The types survive a step of one request that hands on only what it holds.
LEMMA HandlerTypes ==
  ASSUME IType, NEW h \in Handler, Requests', Others(h), req'[h].o \in 0 .. Len(object)',
         gc' = gc,
         blob' \in [Digest -> Nat],
         \A d \in Digest : blob'[d] \in {0, blob[d], req[h].o},
         upload' \in [Upload -> SessionType],
         \A u \in Upload : upload'[u].o \in {0, upload[u].o, req[h].o},
         \A u \in Upload : upload'[u] # NoSession => upload'[u].o # 0,
         object' \in Seq(Content), Len(object') >= Len(object), Len(object') <= MaxObjects,
         manifests' \subseteq Manifest, tag' \in [Tag -> Manifest \cup {None}],
         withdrawn' \subseteq Digest \cup Manifest
  PROVE  IType'
<1>1. Tables'
  BY DEF Tables
<1>2. GcOK(gc')
  BY DEF IType
<1>3. Len(object) \in Nat /\ Len(object') \in Nat
  BY DEF IType, Tables
<1>4. \A k \in Handler : req[k].o \in Nat /\ req[k].o <= Len(object)
  BY DEF IType, Requests, RequestType, Created
<1>5. \A k \in Handler : req'[k].o <= Len(object')
  BY <1>3, <1>4 DEF Others
<1>6. \A d \in Digest : blob[d] \in Nat /\ blob[d] <= Len(object)
  BY DEF IType, Tables, Created
<1>7. \A d \in Digest : blob'[d] <= Len(object')
  BY <1>3, <1>4, <1>6
<1>8. \A u \in Upload : upload[u].o \in Nat /\ upload[u].o <= Len(object)
  BY DEF IType, Tables, SessionType, Created
<1>9. \A u \in Upload : upload'[u].o <= Len(object')
  BY <1>3, <1>4, <1>8
<1>10. \A o \in GcObjects : o \in Nat /\ o <= Len(object)
  BY DEF IType, GcOK, GcObjects, Created, UploadItem, BlobItem
<1>11. \A o \in GcObjects' : o <= Len(object')
  <2>1. GcObjects' = GcObjects
    BY DEF GcObjects
  <2> QED
    BY <1>3, <1>10, <2>1
<1> QED
  BY <1>1, <1>2, <1>5, <1>7, <1>9, <1>11 DEF IType, Created

LEMMA UploadTypes ==
  ASSUME IType, NEW h \in Handler, UploadStep(h)
  PROVE  IType'
<1> USE BoundsAssumption
<1>0. /\ Tables /\ Requests /\ Len(object) \in Nat /\ Len(object) <= MaxObjects
      /\ object \in Seq(Content) /\ {Absent, Garbage} \subseteq Content
      /\ manifests \subseteq Manifest /\ tag \in [Tag -> Manifest \cup {None}]
      /\ withdrawn \subseteq Digest \cup Manifest
      /\ blob \in [Digest -> Nat] /\ upload \in [Upload -> SessionType]
      /\ \A u \in Upload : upload[u] # NoSession => upload[u].o # 0
      /\ req[h].o \in 0 .. Len(object) /\ RequestOK(req[h])
  BY DEF IType, Tables, Content, Requests, RequestType, Created
<1>S. /\ {"session", "body", "row", "unlink"} \subseteq Holding
      /\ {"write", "final", "empty", "verify", "reuse", "insert", "drop"} \subseteq Holding
      /\ {"write", "final", "received", "empty", "verify", "exists", "reuse", "insert", "drop"} = OfSession
  BY DEF Holding, Making, OfSession, Filling, Checked, Removing
<1>N. NoSession \in SessionType /\ NoSession.o = 0
  BY DEF NoSession, SessionType
<1>1. CASE InsertSession(h)
  <2>1. Ended(h) /\ req[h].o \in 1 .. Len(object)
    BY <1>0, <1>1, <1>S, Steps, Holds
  <2>2. PICK u \in Upload :
          upload' = [upload EXCEPT ![u] = [o |-> req[h].o, received |-> 0, expired |-> FALSE]]
    BY <1>1 DEF InsertSession
  <2>3. [o |-> req[h].o, received |-> 0, expired |-> FALSE] \in SessionType
    BY <2>1 DEF SessionType
  <2>4. /\ upload' \in [Upload -> SessionType]
        /\ \A v \in Upload : upload'[v].o \in {upload[v].o, req[h].o}
        /\ \A v \in Upload : upload'[v] # NoSession => upload'[v].o # 0
    BY <1>0, <2>1, <2>2, <2>3
  <2>5. UNCHANGED <<blob, manifests, tag, object, gc, withdrawn>>
    BY <1>1 DEF InsertSession
  <2>6. Requests' /\ Others(h) /\ req'[h].o \in 0 .. Len(object)'
    BY <1>0, <2>1, <2>5 DEF Ended
  <2> QED
    BY <1>0, <2>4, <2>5, <2>6, HandlerTypes
<1>2. CASE WriteMonolithic(h)
  <2>1. (Ended(h) \/ Went(h, "row")) /\ req[h].o \in 1 .. Len(object) /\ req[h].d \in Digest
    BY <1>0, <1>2, <1>S, Steps, Holds DEF RequestOK
  <2>2. object' \in Seq(Content) /\ Len(object') = Len(object)
    BY <1>0, <1>2, <2>1, Writes DEF WriteMonolithic, Unlinked, Content
  <2> QED
    BY <1>0, <1>2, <2>1, <2>2, HandlerTypes DEF WriteMonolithic, Ended, Went, tables
<1>3. CASE InsertMonolithic(h)
  <2>1. Ended(h)
    BY <1>0, <1>3, Steps
  <2>2. UNCHANGED <<manifests, tag, upload, object, gc, withdrawn>>
    BY <1>3 DEF InsertMonolithic
  <2>3. /\ blob' \in [Digest -> Nat]
        /\ \A d \in Digest : blob'[d] \in {0, blob[d], req[h].o}
    <3>1. InsertRow(req[h].d, req[h].o) /\ req[h].o \in Nat
      BY <1>0, <1>3 DEF InsertMonolithic
    <3> QED
      BY <1>0, <3>1, Inserts
  <2> QED
    BY <1>0, <2>1, <2>2, <2>3, HandlerTypes DEF Ended
<1>4. CASE WriteChunk(h)
  <2>1. Stayed(h) /\ req[h].o \in 1 .. Len(object)
    BY <1>0, <1>4, <1>S, Steps, Holds
  <2>2. object' \in Seq(Content) /\ Len(object') = Len(object)
    BY <1>0, <1>4, <2>1, Writes DEF WriteChunk, Content
  <2> QED
    BY <1>0, <1>4, <2>1, <2>2, HandlerTypes DEF WriteChunk, Stayed, tables
<1>5. CASE UpdateReceived(h)
  <2>1. Ended(h)
    BY <1>0, <1>5, Steps
  <2>2. \A u \in Upload : /\ [upload[u] EXCEPT !.received = 1] \in SessionType
                          /\ [upload[u] EXCEPT !.received = 1].o = upload[u].o
    BY <1>0 DEF SessionType
  <2>3. upload' = [u \in Upload |-> IF u = req[h].u /\ u \in Sessions
                                    THEN [upload[u] EXCEPT !.received = 1] ELSE upload[u]]
    BY <1>5 DEF UpdateReceived
  <2>4. /\ upload' \in [Upload -> SessionType]
        /\ \A v \in Upload : upload'[v].o = upload[v].o
        /\ \A v \in Upload : upload'[v] # NoSession => upload'[v].o # 0
    BY <1>0, <2>2, <2>3 DEF Sessions
  <2> QED
    BY <1>0, <1>5, <2>1, <2>4, HandlerTypes DEF UpdateReceived, Ended
<1>6. CASE Verify(h)
  <2>1. (Ended(h) \/ Went(h, "exists") \/ Went(h, "drop")) /\ req[h].o \in 1 .. Len(object)
    BY <1>0, <1>6, <1>S, Steps, Holds
  <2>2. object' \in Seq(Content) /\ Len(object') = Len(object)
    BY <1>0, <1>6, <2>1, Writes DEF Verify, Unlinked
  <2> QED
    <3>1. UNCHANGED <<tables, gc, withdrawn>>
      BY <1>6 DEF Verify
    <3>2. Requests' /\ Others(h) /\ req'[h].o \in 0 .. Len(object)'
      BY <1>0, <2>1, <2>2 DEF Ended, Went
    <3> QED
      BY <1>0, <2>2, <3>1, <3>2, HandlerTypes DEF tables
<1>7. CASE CheckExisting(h)
  <2>1. Went(h, "insert") \/ Went(h, "reuse")
    BY <1>0, <1>7, Steps
  <2>2. UNCHANGED <<blob, manifests, tag, upload, object, gc, withdrawn>>
    BY <1>7 DEF CheckExisting, tables
  <2>3. Requests' /\ Others(h) /\ req'[h].o \in 0 .. Len(object)'
    BY <1>0, <2>1, <2>2 DEF Went
  <2> QED
    BY <1>0, <2>2, <2>3, HandlerTypes
<1>8. CASE ReuseBlob(h)
  <2>1. Went(h, "drop") /\ req[h].o \in 1 .. Len(object)
    BY <1>0, <1>8, <1>S, Steps, Holds
  <2>2. object' \in Seq(Content) /\ Len(object') = Len(object)
    BY <1>0, <1>8, <2>1, Writes DEF ReuseBlob, Unlinked
  <2> QED
    BY <1>0, <1>8, <2>1, <2>2, HandlerTypes DEF ReuseBlob, Went, tables
<1>9. CASE CommitBlob(h)
  <2>1. Went(h, "drop")
    BY <1>0, <1>9, Steps
  <2>2. UNCHANGED <<manifests, tag, upload, object, gc, withdrawn>>
    BY <1>9 DEF CommitBlob
  <2>3. /\ blob' \in [Digest -> Nat]
        /\ \A d \in Digest : blob'[d] \in {0, blob[d], req[h].o}
    <3>1. InsertRow(req[h].d, req[h].o) /\ req[h].o \in Nat
      BY <1>0, <1>9 DEF CommitBlob
    <3> QED
      BY <1>0, <3>1, Inserts
  <2>4. Requests' /\ Others(h) /\ req'[h].o \in 0 .. Len(object)'
    BY <1>0, <2>1, <2>2 DEF Went
  <2>5. /\ gc' = gc /\ upload' \in [Upload -> SessionType]
        /\ \A u \in Upload : upload'[u].o \in {0, upload[u].o, req[h].o}
        /\ \A u \in Upload : upload'[u] # NoSession => upload'[u].o # 0
        /\ object' \in Seq(Content) /\ Len(object') >= Len(object) /\ Len(object') <= MaxObjects
        /\ manifests' \subseteq Manifest /\ tag' \in [Tag -> Manifest \cup {None}]
        /\ withdrawn' \subseteq Digest \cup Manifest
    BY <1>0, <2>2
  <2> QED
    BY <2>3, <2>4, <2>5, HandlerTypes
<1>10. CASE DropSession(h)
  <2>1. Ended(h)
    BY <1>0, <1>10, Steps
  <2>2. /\ upload' \in [Upload -> SessionType]
        /\ \A v \in Upload : upload'[v] \in {NoSession, upload[v]}
    BY <1>0, <1>10, <1>N DEF DropSession
  <2>3. /\ \A v \in Upload : upload'[v].o \in {0, upload[v].o}
        /\ \A v \in Upload : upload'[v] # NoSession => upload'[v].o # 0
    BY <1>0, <1>N, <2>2
  <2> QED
    BY <1>0, <1>10, <2>1, <2>2, <2>3, HandlerTypes DEF DropSession, Ended
<1>11. CASE Unlink(h)
  <2>1. Ended(h) /\ req[h].o \in 1 .. Len(object)
    BY <1>0, <1>11, <1>S, Steps, Holds
  <2>2. object' \in Seq(Content) /\ Len(object') = Len(object)
    BY <1>0, <1>11, <2>1, Writes DEF Unlink, Unlinked
  <2> QED
    BY <1>0, <1>11, <2>1, <2>2, HandlerTypes DEF Unlink, Ended, tables
<1>12. CASE EndBody(h) \/ UnlinkFails(h)
  <2>1. UNCHANGED <<tables, object, gc, withdrawn>>
    BY <1>12 DEF EndBody, UnlinkFails
  <2>2. Requests' /\ Others(h) /\ req'[h].o \in 0 .. Len(object)'
    BY <1>0, <1>12, <2>1, Steps DEF Ended, Went
  <2> QED
    BY <1>0, <2>1, <2>2, HandlerTypes DEF tables
<1> QED
  BY <1>1, <1>2, <1>3, <1>4, <1>5, <1>6, <1>7, <1>8, <1>9, <1>10, <1>11, <1>12 DEF UploadStep

LEMMA ManifestTypes ==
  ASSUME IType, NEW h \in Handler, ManifestStep(h)
  PROVE  IType'
<1>0. /\ Tables /\ Requests /\ Len(object) \in Nat /\ Len(object) <= MaxObjects
      /\ object \in Seq(Content)
      /\ manifests \subseteq Manifest /\ tag \in [Tag -> Manifest \cup {None}]
      /\ withdrawn \subseteq Digest \cup Manifest
      /\ blob \in [Digest -> Nat] /\ upload \in [Upload -> SessionType]
      /\ \A u \in Upload : upload[u] # NoSession => upload[u].o # 0
      /\ req[h].o \in 0 .. Len(object) /\ RequestOK(req[h])
  BY DEF IType, Tables, Requests, RequestType, Created
<1>M. req[h].at \in Putting \cup Untagging => req[h].m \in Manifest
  BY <1>0 DEF RequestOK
<1>P. {"insertManifest", "tag"} \subseteq Putting /\ {"reap", "deleteManifest"} \subseteq Untagging
  BY DEF Putting, Untagging
<1>1. CASE DeleteBlobRow(h)
  <2>1. Went(h, "unlink") /\ req[h].d \in Digest
    BY <1>0, <1>1, Steps DEF RequestOK
  <2>2. UNCHANGED <<manifests, tag, upload, object, gc>> /\ withdrawn' \subseteq Digest \cup Manifest
    BY <1>0, <1>1, <2>1 DEF DeleteBlobRow, Withdraw
  <2>3. blob' \in [Digest -> Nat] /\ \A d \in Digest : blob'[d] \in {0, blob[d], req[h].o}
    BY <1>0, <1>1 DEF DeleteBlobRow
  <2>4. Requests' /\ Others(h) /\ req'[h].o \in 0 .. Len(object)'
    BY <1>0, <2>1, <2>2 DEF Went
  <2> QED
    BY <1>0, <2>2, <2>3, <2>4, HandlerTypes
<1>2. CASE CheckReference(h)
  <2>1. Ended(h) \/ Went(h, "insertManifest") \/ \E x : Struck(h, "check", x)
    BY <1>0, <1>2, TagSteps
  <2>2. UNCHANGED <<tables, object, gc, withdrawn>>
    BY <1>2 DEF CheckReference
  <2> QED
    BY <1>0, <2>1, <2>2, HandlerTypes DEF Ended, Went, Struck, tables
<1>3. CASE InsertManifest(h)
  <2>1. (Ended(h) \/ Went(h, "tag")) /\ req[h].m \in Manifest
    BY <1>0, <1>3, <1>M, <1>P, TagSteps
  <2>2. UNCHANGED <<blob, tag, upload, object, gc, withdrawn>> /\ manifests' \subseteq Manifest
    BY <1>0, <1>3, <2>1 DEF InsertManifest
  <2> QED
    BY <1>0, <2>1, <2>2, HandlerTypes DEF Ended, Went
<1>4. CASE UpsertTag(h)
  <2>1. Ended(h) /\ req[h].m \in Manifest
    BY <1>0, <1>4, <1>M, <1>P, TagSteps
  <2>2. UNCHANGED <<blob, manifests, upload, object, gc, withdrawn>> /\ tag' \in [Tag -> Manifest \cup {None}]
    BY <1>0, <1>4, <2>1 DEF UpsertTag
  <2>3. Requests' /\ Others(h) /\ req'[h].o \in 0 .. Len(object)'
    BY <1>0, <2>1, <2>2 DEF Ended
  <2> QED
    BY <1>0, <2>2, <2>3, HandlerTypes
<1>5. CASE Untag(h)
  <2>1. \E t, at : Struck(h, at, t) /\ tag' = [tag EXCEPT ![t] = None]
    BY <1>0, <1>5, TagSteps
  <2>2. UNCHANGED <<blob, manifests, upload, object, gc, withdrawn>> /\ tag' \in [Tag -> Manifest \cup {None}]
    BY <1>0, <1>5, <2>1 DEF Untag
  <2> QED
    BY <1>0, <2>1, <2>2, HandlerTypes DEF Struck
<1>6. CASE ReapManifest(h) \/ DeleteUntagged(h)
  <2>1. Ended(h) /\ req[h].m \in Manifest
    BY <1>0, <1>6, <1>M, <1>P, TagSteps
  <2>2. UNCHANGED <<blob, tag, upload, object, gc>> /\ manifests' \subseteq Manifest
    BY <1>0, <1>6 DEF ReapManifest, DeleteUntagged
  <2>3. withdrawn' \subseteq Digest \cup Manifest
    BY <1>0, <1>6, <2>1 DEF ReapManifest, DeleteUntagged, Withdraw
  <2> QED
    BY <1>0, <2>1, <2>2, <2>3, HandlerTypes DEF Ended
<1>7. CASE FindOtherTags(h)
  <2>1. Ended(h) \/ Went(h, "deleteManifest")
    BY <1>0, <1>7, TagSteps
  <2>2. UNCHANGED <<tables, object, gc, withdrawn>>
    BY <1>7 DEF FindOtherTags
  <2> QED
    BY <1>0, <2>1, <2>2, HandlerTypes DEF Ended, Went, tables
<1>8. CASE ListTags(h)
  <2>1. Requests' /\ Others(h) /\ req'[h].o = req[h].o
    BY <1>0, <1>8, TagSteps
  <2>2. UNCHANGED <<tables, object, gc, withdrawn>>
    BY <1>8 DEF ListTags
  <2>3. Requests' /\ Others(h) /\ req'[h].o \in 0 .. Len(object)'
    BY <1>0, <2>1, <2>2
  <2>4. UNCHANGED <<blob, manifests, tag, upload, object, gc, withdrawn>>
    BY <2>2 DEF tables
  <2> QED
    BY <1>0, <2>3, <2>4, HandlerTypes
<1> QED
  BY <1>1, <1>2, <1>3, <1>4, <1>5, <1>6, <1>7, <1>8 DEF ManifestStep

LEMMA RequestTypes ==
  ASSUME IType, NEW h \in Handler, Request(h)
  PROVE  IType'
<1>0. /\ Tables /\ Requests /\ Len(object) \in Nat /\ Len(object) <= MaxObjects
      /\ object \in Seq(Content) /\ Empty \in Content
      /\ manifests \subseteq Manifest /\ tag \in [Tag -> Manifest \cup {None}]
      /\ withdrawn \subseteq Digest \cup Manifest
      /\ blob \in [Digest -> Nat] /\ upload \in [Upload -> SessionType]
      /\ \A u \in Upload : upload[u] # NoSession => upload[u].o # 0
      /\ \A u \in Upload : upload[u].o \in 0 .. Len(object)
      /\ \A d \in Digest : blob[d] \in 0 .. Len(object)
      /\ MaxObjects \in Nat
  BY BoundsAssumption DEF IType, Tables, SessionType, Created, Content
<1>1. CASE BeginSession(h) \/ \E d \in Digest : BeginMonolithic(h, d)
  <2>0. Requests' /\ Others(h) /\ req'[h].o = Len(object) + 1
    <3>1. ASSUME BeginSession(h) PROVE Requests' /\ Others(h) /\ req'[h].o = Len(object) + 1
      BY <1>0, <3>1, Beginnings DEF Began
    <3>2. ASSUME NEW d \in Digest, BeginMonolithic(h, d)
          PROVE  Requests' /\ Others(h) /\ req'[h].o = Len(object) + 1
      BY <1>0, <3>2, Beginnings DEF Began
    <3> QED
      BY <1>1, <3>1, <3>2
  <2>1. /\ Requests' /\ Others(h) /\ req'[h].o = Len(object) + 1
        /\ UNCHANGED <<tables, gc, withdrawn>>
        /\ Len(object) < MaxObjects /\ object' = Append(object, Empty)
    BY <1>1, <2>0 DEF BeginSession, BeginMonolithic, Create
  <2>2. object' \in Seq(Content) /\ Len(object') = Len(object) + 1
    BY <1>0, <2>1, AppendProperties
  <2> QED
    BY <1>0, <2>1, <2>2, HandlerTypes DEF tables
<1>2. CASE \E d \in Digest : BeginDeleteBlob(h, d)
  <2>1. Requests' /\ Others(h) /\ req'[h].o \in 0 .. Len(object)
    BY <1>0, <1>2, Beginnings DEF Began
  <2>2. UNCHANGED <<tables, object, gc, withdrawn>>
    BY <1>2 DEF BeginDeleteBlob
  <2> QED
    BY <1>0, <2>1, <2>2, HandlerTypes DEF tables
<1>3. CASE \E u \in Upload : BeginPatch(h, u) \/ BeginComplete(h, u)
  <2>1. Requests' /\ Others(h) /\ req'[h].o \in 0 .. Len(object)
    <3>1. PICK u \in Upload : BeginPatch(h, u) \/ BeginComplete(h, u)
      BY <1>3
    <3>2. (\E at \in Filling : Began(h, at)) /\ req'[h].o = upload[u].o
      BY <1>0, <3>1, Beginnings
    <3> QED
      BY <1>0, <3>2 DEF Began
  <2>2. UNCHANGED <<tables, object, gc, withdrawn>>
    BY <1>3 DEF BeginPatch, BeginComplete, ReadSession
  <2> QED
    BY <1>0, <2>1, <2>2, HandlerTypes DEF tables
<1>4. CASE \E u \in Upload : Cancel(h, u) \/ CancelElsewhere(h, u)
  <2>1. Requests' /\ Others(h) /\ req'[h].o \in 0 .. Len(object)
    BY <1>0, <1>4, Beginnings, Idle DEF Began, Stayed
  <2>2. UNCHANGED <<blob, manifests, tag, object, gc, withdrawn>>
    BY <1>4 DEF Cancel, CancelElsewhere
  <2>3. NoSession \in SessionType /\ NoSession.o = 0
    BY DEF NoSession, SessionType
  <2>4. upload' \in [Upload -> SessionType] /\ \A v \in Upload : upload'[v] \in {NoSession, upload[v]}
    BY <1>0, <1>4, <2>3 DEF Cancel, CancelElsewhere
  <2>5. /\ \A v \in Upload : upload'[v].o \in {0, upload[v].o}
        /\ \A v \in Upload : upload'[v] # NoSession => upload'[v].o # 0
    BY <1>0, <2>3, <2>4
  <2> QED
    BY <1>0, <2>1, <2>2, <2>4, <2>5, HandlerTypes
<1>5. CASE \/ \E m \in Manifest : \E t \in Tag \cup {None} : BeginPut(h, m, t)
           \/ \E m \in Manifest : \E t \in Tag : BeginDeleteManifest(h, m, t)
           \/ \E t \in Tag : BeginDeleteTag(h, t)
  <2>1. Requests' /\ Others(h) /\ req'[h].o = 0
    <3>1. ASSUME NEW m \in Manifest, NEW t \in Tag \cup {None}, BeginPut(h, m, t)
          PROVE  Requests' /\ Others(h) /\ req'[h].o = 0
      BY <1>0, <3>1, Beginnings DEF Began
    <3>2. ASSUME NEW m \in Manifest, NEW t \in Tag, BeginDeleteManifest(h, m, t) \/ BeginDeleteTag(h, t)
          PROVE  Requests' /\ Others(h) /\ req'[h].o = 0
      BY <1>0, <3>2, Beginnings DEF Began
    <3>3. ASSUME NEW t \in Tag, BeginDeleteTag(h, t)
          PROVE  Requests' /\ Others(h) /\ req'[h].o = 0
      BY <1>0, <3>3, Beginnings DEF Began
    <3> QED
      BY <1>5, <3>1, <3>2, <3>3
  <2>2. UNCHANGED <<tables, object, gc, withdrawn>>
    BY <1>5 DEF BeginPut, BeginDeleteManifest, BeginDeleteTag
  <2> QED
    BY <1>0, <2>1, <2>2, HandlerTypes DEF tables
<1> QED
  BY <1>1, <1>2, <1>3, <1>4, <1>5 DEF Request

\* What the collector does with its list.
LEMMA Stages ==
  ASSUME NEW at, NEW todo, Stage(at, todo),
         \/ at = "uploads" /\ todo \subseteq UploadItem
         \/ at = "manifests" /\ todo \subseteq Manifest
         \/ at = "blobs" /\ todo \subseteq BlobItem
  PROVE  GcOK(gc') /\ gc'.at = at /\ gc'.todo = todo /\ gc'.hand = Nothing
<1> DEFINE g == [at |-> at, todo |-> todo, hand |-> Nothing]
<1>1. /\ g \in [at : {"idle", "uploads", "manifests", "blobs"},
                todo : SUBSET (Manifest \cup UploadItem \cup BlobItem),
                hand : UploadItem \cup BlobItem \cup {Nothing}]
      /\ g.at = at /\ g.todo = todo /\ g.hand = Nothing
  OBVIOUS
<1>2. gc' = g
  BY DEF Stage
<1> HIDE DEF g
<1> QED
  BY <1>1, <1>2 DEF GcOK

LEMMA Drops ==
  ASSUME GcOK(gc), NEW x, Drop(x)
  PROVE  GcOK(gc') /\ gc'.at = gc.at /\ gc'.todo = gc.todo \ {x} /\ gc'.hand = Nothing
<1>1. /\ gc' \in [at : {"idle", "uploads", "manifests", "blobs"},
                  todo : SUBSET (Manifest \cup UploadItem \cup BlobItem),
                  hand : UploadItem \cup BlobItem \cup {Nothing}]
      /\ gc'.at = gc.at /\ gc'.todo = gc.todo \ {x} /\ gc'.hand = Nothing
  BY DEF GcOK, Drop
<1> QED
  BY <1>1 DEF GcOK

LEMMA Takes ==
  ASSUME GcOK(gc), NEW x \in gc.todo, gc.at \in {"uploads", "blobs"}, gc' = [gc EXCEPT !.hand = x]
  PROVE  GcOK(gc') /\ gc'.at = gc.at /\ gc'.todo = gc.todo /\ gc'.hand = x
<1>1. x \in UploadItem \cup BlobItem
  BY DEF GcOK
<1>2. /\ gc' \in [at : {"idle", "uploads", "manifests", "blobs"},
                  todo : SUBSET (Manifest \cup UploadItem \cup BlobItem),
                  hand : UploadItem \cup BlobItem \cup {Nothing}]
      /\ gc'.at = gc.at /\ gc'.todo = gc.todo /\ gc'.hand = x
  BY <1>1 DEF GcOK
<1> QED
  BY <1>2 DEF GcOK

LEMMA Rests == GcOK(IdleGc) /\ IdleGc.at = "idle" /\ IdleGc.todo = {} /\ IdleGc.hand = Nothing
<1>1. /\ IdleGc \in [at : {"idle", "uploads", "manifests", "blobs"},
                     todo : SUBSET (Manifest \cup UploadItem \cup BlobItem),
                     hand : UploadItem \cup BlobItem \cup {Nothing}]
      /\ IdleGc.at = "idle" /\ IdleGc.todo = {} /\ IdleGc.hand = Nothing
  BY DEF IdleGc
<1> QED
  BY <1>1 DEF GcOK

\* What the three lists are.
LEMMA Lists ==
  ASSUME IType
  PROVE  /\ {[o |-> upload[u].o, key |-> u] : u \in {v \in Sessions : upload[v].expired}} \subseteq UploadItem
         /\ \A x \in {[o |-> upload[u].o, key |-> u] : u \in {v \in Sessions : upload[v].expired}} :
              x.key \in Upload /\ x.o = upload[x.key].o
         /\ {[o |-> blob[d], key |-> d] : d \in OrphanBlobs} \subseteq BlobItem
         /\ \A x \in {[o |-> blob[d], key |-> d] : d \in OrphanBlobs} :
              x.key \in OrphanBlobs /\ x.o = blob[x.key]
<1>1. \A u \in Sessions : u \in Upload /\ upload[u].o \in Nat \ {0}
  BY DEF IType, Tables, SessionType, Sessions
<1>2. \A d \in OrphanBlobs : d \in Digest /\ blob[d] \in Nat \ {0}
  BY DEF IType, Tables, OrphanBlobs
<1> QED
  BY <1>1, <1>2 DEF UploadItem, BlobItem

\* Nor do the time that passes, the collector and crashes undo them.
LEMMA OtherTypes ==
  ASSUME IType,
         \/ (\E u \in Upload : Expire(u)) \/ GcStep \/ CrashGc \/ GcFails \/ UNCHANGED vars
         \/ CrashApi \/ \E h \in Handler : Fails(h)
  PROVE  IType'
<1>0. /\ Tables /\ Requests /\ GcOK(gc) /\ Created /\ Len(object) \in Nat /\ Len(object) <= MaxObjects
      /\ object \in Seq(Content) /\ Absent \in Content
      /\ manifests \subseteq Manifest /\ tag \in [Tag -> Manifest \cup {None}]
      /\ withdrawn \subseteq Digest \cup Manifest
      /\ blob \in [Digest -> Nat] /\ upload \in [Upload -> SessionType]
      /\ \A u \in Upload : upload[u] # NoSession => upload[u].o # 0
      /\ \A u \in Upload : upload[u].o \in 0 .. Len(object)
      /\ \A d \in Digest : blob[d] \in 0 .. Len(object)
      /\ \A k \in Handler : req[k].o \in 0 .. Len(object)
  BY DEF IType, Tables, SessionType, Created, Content, Requests, RequestType
<1>1. CASE \E u \in Upload : Expire(u)
  <2>1. PICK u \in Upload : upload' = [upload EXCEPT ![u].expired = TRUE] /\ u \in Sessions
    BY <1>1 DEF Expire
  <2>2. /\ upload' \in [Upload -> SessionType]
        /\ \A v \in Upload : upload'[v].o = upload[v].o
    BY <1>0, <2>1 DEF SessionType
  <2>3. \A v \in Upload : upload'[v] # NoSession => upload'[v].o # 0
    BY <1>0, <2>1, <2>2 DEF Sessions
  <2>4. UNCHANGED <<blob, manifests, tag, object, req, gc, withdrawn>>
    BY <1>1 DEF Expire
  <2>5. Tables' /\ Requests' /\ GcOK(gc')
    BY <1>0, <2>2, <2>3, <2>4 DEF Tables, Requests
  <2>6. Created'
    BY <1>0, <2>2, <2>4 DEF Created, GcObjects
  <2> QED
    BY <2>5, <2>6 DEF IType
<1>2. CASE GcListUploads
  <2>1. UNCHANGED <<tables, object, req, withdrawn>>
    BY <1>2 DEF GcListUploads
  <2>2. GcOK(gc') /\ \A o \in GcObjects' : \E u \in Upload : o = upload[u].o
    BY <1>2, Lists, Stages DEF GcListUploads, GcObjects
  <2> QED
    BY <1>0, <2>1, <2>2 DEF IType, Tables, Requests, Created, tables
<1>3. CASE \E x \in gc.todo : GcUnlink(x)
  <2>1. PICK x \in gc.todo : GcUnlink(x)
    BY <1>3
  <2>2. x.o \in GcObjects /\ x.o \in 1 .. Len(object) /\ gc.at \in {"uploads", "blobs"}
    BY <1>0, <2>1 DEF GcUnlink, GcOK, GcObjects, UploadItem, BlobItem, Created
  <2>3. UNCHANGED <<tables, req, withdrawn>>
    BY <2>1 DEF GcUnlink
  <2>4. object' \in Seq(Content) /\ Len(object') = Len(object)
    BY <1>0, <2>1, <2>2, Writes DEF GcUnlink, Unlinked
  <2>5. GcOK(gc') /\ gc'.at = gc.at /\ gc'.todo \subseteq gc.todo
    BY <1>0, <2>1, <2>2, Takes, Drops DEF GcUnlink
  <2>6. GcObjects' \subseteq GcObjects
    BY <2>5 DEF GcObjects
  <2> QED
    BY <1>0, <2>3, <2>4, <2>5, <2>6 DEF IType, Tables, Requests, Created, tables
<1>4. CASE \E x \in gc.todo : GcDeleteUpload(x)
  <2>1. PICK x \in gc.todo : GcDeleteUpload(x)
    BY <1>4
  <2>2. UNCHANGED <<blob, manifests, tag, object, req, withdrawn>>
    BY <2>1 DEF GcDeleteUpload
  <2>3. NoSession \in SessionType /\ NoSession.o = 0
    BY DEF NoSession, SessionType
  <2>4. upload' \in [Upload -> SessionType] /\ \A v \in Upload : upload'[v] \in {NoSession, upload[v]}
    BY <1>0, <2>1, <2>3 DEF GcDeleteUpload
  <2>5. GcOK(gc') /\ gc'.at = gc.at /\ gc'.todo \subseteq gc.todo
    BY <1>0, <2>1, Drops DEF GcDeleteUpload
  <2>6. GcObjects' \subseteq GcObjects
    BY <2>5 DEF GcObjects
  <2>7. /\ \A v \in Upload : upload'[v].o \in 0 .. Len(object)
        /\ \A v \in Upload : upload'[v] # NoSession => upload'[v].o # 0
    BY <1>0, <2>3, <2>4
  <2> QED
    BY <1>0, <2>2, <2>4, <2>5, <2>6, <2>7 DEF IType, Tables, Requests, Created
<1>5. CASE GcListManifests
  <2>1. UNCHANGED <<tables, object, req, withdrawn>>
    BY <1>5 DEF GcListManifests
  <2>2. GcOK(gc') /\ GcObjects' = {}
    BY <1>0, <1>5, Stages DEF GcListManifests, GcObjects, OrphanManifests
  <2> QED
    BY <1>0, <2>1, <2>2 DEF IType, Tables, Requests, Created, tables
<1>6. CASE \E x \in gc.todo : GcDeleteManifest(x)
  <2>1. PICK x \in gc.todo : GcDeleteManifest(x)
    BY <1>6
  <2>2. UNCHANGED <<blob, tag, upload, object, req>> /\ manifests' \subseteq Manifest /\ x \in Manifest
    BY <1>0, <2>1 DEF GcDeleteManifest, GcOK
  <2>3. withdrawn' \subseteq Digest \cup Manifest
    BY <1>0, <2>1, <2>2 DEF GcDeleteManifest, Withdraw
  <2>4. GcOK(gc') /\ gc'.at = gc.at /\ gc'.at = "manifests"
    BY <1>0, <2>1, Drops DEF GcDeleteManifest
  <2>5. GcObjects' = {}
    BY <2>4 DEF GcObjects
  <2> QED
    BY <1>0, <2>2, <2>3, <2>4, <2>5 DEF IType, Tables, Requests, Created
<1>7. CASE GcListBlobs
  <2>1. UNCHANGED <<tables, object, req, withdrawn>>
    BY <1>7 DEF GcListBlobs
  <2>2. GcOK(gc') /\ \A o \in GcObjects' : \E d \in Digest : o = blob[d]
    BY <1>7, Lists, Stages DEF GcListBlobs, GcObjects, OrphanBlobs
  <2> QED
    BY <1>0, <2>1, <2>2 DEF IType, Tables, Requests, Created, tables
<1>8. CASE \E x \in gc.todo : GcDeleteBlob(x)
  <2>1. PICK x \in gc.todo : GcDeleteBlob(x)
    BY <1>8
  <2>2. UNCHANGED <<manifests, tag, upload, object, req>> /\ x.key \in Digest
    BY <1>0, <2>1 DEF GcDeleteBlob, GcOK, BlobItem
  <2>3. withdrawn' \subseteq Digest \cup Manifest
    BY <1>0, <2>1, <2>2 DEF GcDeleteBlob, Withdraw
  <2>4. blob' \in [Digest -> Nat] /\ \A d \in Digest : blob'[d] \in {0, blob[d]}
    BY <1>0, <2>1 DEF GcDeleteBlob
  <2>5. GcOK(gc') /\ gc'.at = gc.at /\ gc'.todo \subseteq gc.todo
    BY <1>0, <2>1, Drops DEF GcDeleteBlob
  <2>6. GcObjects' \subseteq GcObjects
    BY <2>5 DEF GcObjects
  <2>7. Tables' /\ Requests'
    BY <1>0, <2>2, <2>3, <2>4 DEF Tables, Requests
  <2>8. Created'
    <3>1. Len(object) \in Nat /\ \A d \in Digest : blob'[d] <= Len(object)
      BY <1>0, <2>4 DEF Created, Tables
    <3>2. \A u \in Upload : upload'[u].o <= Len(object)
      BY <1>0, <2>2 DEF Created
    <3>3. \A h \in Handler : req'[h].o <= Len(object)
      BY <1>0, <2>2 DEF Created
    <3>4. \A o \in GcObjects' : o <= Len(object)
      BY <1>0, <2>6 DEF Created
    <3> QED
      BY <2>2, <3>1, <3>2, <3>3, <3>4 DEF Created
  <2> QED
    BY <2>5, <2>7, <2>8 DEF IType
<1>9. CASE GcEnd \/ CrashGc
  <2>1. UNCHANGED <<tables, object, req, withdrawn>> /\ gc' = IdleGc
    BY <1>9 DEF GcEnd, CrashGc
  <2>2. GcOK(gc') /\ GcObjects' = {}
    BY <2>1, Rests DEF GcObjects
  <2> QED
    BY <1>0, <2>1, <2>2 DEF IType, Tables, Requests, Created, tables
<1>10. CASE CrashApi
  <2>1. UNCHANGED <<tables, object, gc, withdrawn>> /\ req' = [h \in Handler |-> NoRequest]
    BY <1>10 DEF CrashApi
  <2>2. Requests' /\ \A h \in Handler : req'[h].o = 0
    BY <2>1, Idle DEF Requests, RequestOK
  <2>3. GcObjects' = GcObjects
    BY <2>1 DEF GcObjects
  <2> QED
    BY <1>0, <2>1, <2>2, <2>3 DEF IType, Tables, Created, tables
<1>11. CASE UNCHANGED vars
  BY <1>0, <1>11 DEF IType, Tables, Requests, Created, GcObjects, vars
<1>12. CASE GcFails
  <2>1. PICK x : Drop(x)
    BY <1>12 DEF GcFails
  <2>2. UNCHANGED <<tables, object, req, withdrawn>>
    BY <1>12 DEF GcFails
  <2>3. GcOK(gc') /\ gc'.at = gc.at /\ gc'.todo \subseteq gc.todo
    BY <1>0, <2>1, Drops
  <2>4. GcObjects' \subseteq GcObjects
    BY <2>3 DEF GcObjects
  <2> QED
    BY <1>0, <2>2, <2>3, <2>4 DEF IType, Tables, Requests, Created, tables
<1>13. CASE \E h \in Handler : Fails(h)
  <2>1. PICK h \in Handler : Fails(h)
    BY <1>13
  <2>2. UNCHANGED <<tables, object, gc, withdrawn>>
    BY <2>1 DEF Fails
  <2>3. Requests' /\ Others(h) /\ req'[h].o \in 0 .. Len(object)'
    BY <1>0, <2>1, <2>2, Ends DEF Fails, Ended
  <2> QED
    BY <1>0, <2>2, <2>3, HandlerTypes DEF tables
<1> QED
  BY <1>1, <1>2, <1>3, <1>4, <1>5, <1>6, <1>7, <1>8, <1>9, <1>10, <1>11, <1>12, <1>13 DEF GcStep

LEMMA TypesInvariant == Spec => []IType
<1>1. Init => IType
  <2> SUFFICES ASSUME Init PROVE IType
    OBVIOUS
  <2>1. Tables
    <3>1. NoSession \in SessionType /\ NoSession.o = 0
      BY DEF NoSession, SessionType
    <3> QED
      BY <3>1, BoundsAssumption DEF Init, Tables
  <2>2. Requests /\ \A h \in Handler : req[h].o = 0
    BY Idle DEF Init, Requests, RequestOK
  <2>3. GcOK(gc) /\ GcObjects = {}
    BY Rests DEF Init, GcObjects
  <2>4. Created
    BY <2>2, <2>3 DEF Init, Created, NoSession
  <2> QED
    BY <2>1, <2>2, <2>3, <2>4 DEF IType
<1>2. IType /\ [Next]_vars => IType'
  BY UploadTypes, ManifestTypes, RequestTypes, OtherTypes DEF Next, Step
<1> QED
  BY <1>1, <1>2, PTL DEF Spec

\* The tables, the large objects, the requests and the collector keep their types.
THEOREM TypeCorrect == Spec => []TypeOK
<1>1. IType => TypeOK
  <2> SUFFICES ASSUME IType PROVE TypeOK
    OBVIOUS
  <2>1. \A u \in Upload : upload[u] \in [o : 0 .. Len(object), received : 0 .. 1, expired : BOOLEAN]
    BY DEF IType, Tables, Created, SessionType
  <2>2. upload \in [Upload -> [o : 0 .. Len(object), received : 0 .. 1, expired : BOOLEAN]]
    BY <2>1 DEF IType, Tables
  <2>3. \A h \in Handler : req[h].o \in 0 .. Len(object)
    BY DEF IType, Tables, Requests, RequestType, Created
  <2>4. blob \in [Digest -> 0 .. Len(object)]
    BY DEF IType, Tables, Created
  <2>5. gc.todo \subseteq CASE gc.at = "manifests" -> Manifest [] gc.at = "idle" -> {} [] OTHER -> Item
    <3>1. CASE gc.at = "manifests" \/ gc.at = "idle"
      BY <3>1 DEF IType, GcOK
    <3>2. CASE gc.at \in {"uploads", "blobs"}
      <4> SUFFICES ASSUME NEW x \in gc.todo PROVE x \in Item
        BY <3>2
      <4>1. /\ gc.at = "uploads" => x \in UploadItem
            /\ gc.at = "blobs" => x \in BlobItem
        BY DEF IType, GcOK
      <4>2. x \in [o : Nat \ {0}, key : Upload \cup Digest]
        BY <3>2, <4>1 DEF UploadItem, BlobItem
      <4>3. x.o \in GcObjects
        BY <3>2 DEF GcObjects
      <4>4. x.o <= MaxObjects /\ Len(object) \in Nat
        BY <4>2, <4>3, BoundsAssumption DEF IType, Created, Tables
      <4> QED
        BY <4>2, <4>4, BoundsAssumption DEF Item
    <3> QED
      BY <3>1, <3>2 DEF IType, GcOK
  <2>6. gc.hand \in gc.todo \cup {Nothing}
    BY DEF IType, GcOK
  <2> QED
    BY <2>2, <2>3, <2>4, <2>5, <2>6 DEF TypeOK, IType, Tables, Content
<1> QED
  BY <1>1, TypesInvariant, PTL

-----------------------------------------------------------------------------
(* The tags.  What a manifest refers to is there, or was withdrawn; what a  *)
(* push has found is, too, and the collector knows of it.                   *)

Refs(m) == Blobs(m) \cup Children(m)
There(x) == Known(x) \/ x \in withdrawn

Tags == \A t \in Tag : tag[t] # None => tag[t] \in manifests
Manifests == \A m \in manifests : \A x \in Refs(m) : There(x)
Pushes ==
  \A h \in Handler :
    /\ \A x \in HeldBy(h) : There(x)
    /\ req[h].at = "insertManifest" => req[h].todo = {}
    /\ gc.at \in {"manifests", "blobs"} => HeldBy(h) \subseteq seen
Listed ==
  \A m \in manifests : \A x \in gc.todo :
    /\ gc.at = "manifests" /\ x \in Refs(m) => x \in seen \cup withdrawn
    /\ gc.at = "blobs" /\ x.key \in Refs(m) => x.key \in seen \cup withdrawn

TInv == Tags /\ Manifests /\ Pushes /\ Listed

\* A step keeps them that takes nothing away but what nobody refers to or has found.
LEMMA TagsFrame ==
  ASSUME IType, TInv, Tags', manifests' \subseteq manifests,
         \A x \in Digest \cup Manifest :
           There(x) => \/ There(x)'
                       \/ /\ \A m \in manifests' : x \notin Refs(m)
                          /\ \A h \in Handler : x \notin HeldBy(h),
         withdrawn \subseteq withdrawn', seen' = seen,
         gc'.todo \subseteq gc.todo, gc'.at \in {gc.at, "idle"},
         \A h \in Handler : \/ HeldBy(h)' = {} /\ req'[h].at # "insertManifest"
                            \/ req'[h] = req[h]
  PROVE  TInv'
<1>1. \A m \in manifests : Refs(m) \subseteq Digest \cup Manifest
  BY ReferencesAssumption DEF Refs, IType, Tables
<1>2. \A h \in Handler : HeldBy(h) \subseteq Digest \cup Manifest
  BY ReferencesAssumption DEF HeldBy, IType, Requests, RequestOK
<1>3. Manifests'
  BY <1>1 DEF TInv, Manifests
<1>4. Pushes'
  <2> SUFFICES ASSUME NEW h \in Handler
               PROVE  /\ \A x \in HeldBy(h)' : There(x)'
                      /\ req'[h].at = "insertManifest" => req'[h].todo = {}
                      /\ gc'.at \in {"manifests", "blobs"} => HeldBy(h)' \subseteq seen'
    BY DEF Pushes
  <2>1. CASE HeldBy(h)' = {} /\ req'[h].at # "insertManifest"
    BY <2>1
  <2>2. CASE req'[h] = req[h]
    <3>1. HeldBy(h)' = HeldBy(h)
      BY <2>2 DEF HeldBy
    <3> QED
      BY <1>2, <2>2, <3>1 DEF TInv, Pushes
  <2> QED
    BY <2>1, <2>2
<1>5. Listed'
  BY DEF TInv, Listed
<1> QED
  BY <1>3, <1>4, <1>5 DEF TInv

\* Requests that put no manifest have found nothing.
LEMMA HoldsNothing ==
  ASSUME NEW h \in Handler, Requests'
  PROVE  /\ req'[h].at \notin Putting => HeldBy(h)' = {} /\ req'[h].at # "insertManifest"
         /\ req'[h].op # "put" => HeldBy(h)' = {} /\ req'[h].at # "insertManifest"
<1>1. RequestOK(req'[h])
  BY DEF Requests
<1>2. req'[h].at \in Putting <=> req'[h].op = "put"
  BY <1>1 DEF RequestOK
<1>3. "insertManifest" \in Putting
  BY DEF Putting
<1> QED
  BY <1>2, <1>3 DEF HeldBy

\* So does every step of an upload.
LEMMA UploadTags ==
  ASSUME IType, TInv, NEW h \in Handler, UploadStep(h) \/ DeleteBlobRow(h)
  PROVE  TInv'
<1>0. Requests /\ Tables
  BY DEF IType
<1>1. Requests' /\ Others(h) /\ req'[h].at \notin Putting
  <2>1. {"write", "final", "verify", "row", "received", "exists", "drop", "insert", "reuse", "unlink", None}
          \cap Putting = {}
    BY DEF Putting, None
  <2> QED
    BY <1>0, <2>1, Steps DEF UploadStep, Ended, Went, Stayed
<1>2. \A k \in Handler : \/ HeldBy(k)' = {} /\ req'[k].at # "insertManifest"
                         \/ req'[k] = req[k]
  BY <1>1, HoldsNothing DEF Others
<1>3. UNCHANGED <<manifests, tag, gc, seen>>
  BY DEF UploadStep, InsertSession, WriteMonolithic, InsertMonolithic, WriteChunk, EndBody, UpdateReceived,
     Verify, CheckExisting, ReuseBlob, CommitBlob, DropSession, Unlink, UnlinkFails, DeleteBlobRow, tables
<1>4. CASE UploadStep(h)
  <2>1. withdrawn' = withdrawn
    BY <1>4 DEF UploadStep, InsertSession, WriteMonolithic, InsertMonolithic, WriteChunk, EndBody,
       UpdateReceived, Verify, CheckExisting, ReuseBlob, CommitBlob, DropSession, Unlink, UnlinkFails, tables
  <2>2. \A d \in Digest : blob[d] # 0 => blob'[d] # 0
    <3>1. CASE InsertMonolithic(h) \/ CommitBlob(h)
      BY <1>0, <3>1 DEF InsertMonolithic, CommitBlob, InsertRow, Tables
    <3>2. CASE blob' = blob
      BY <3>2
    <3> QED
      BY <1>4, <3>1, <3>2 DEF UploadStep, InsertSession, WriteMonolithic, WriteChunk, EndBody,
         UpdateReceived, Verify, CheckExisting, ReuseBlob, DropSession, Unlink, UnlinkFails, tables
  <2>3. \A x : There(x) => There(x)'
    BY <1>3, <2>1, <2>2 DEF There, Known
  <2>4. Tags'
    BY <1>3 DEF TInv, Tags
  <2> QED
    BY <1>2, <1>3, <2>1, <2>3, <2>4, TagsFrame
<1>5. CASE DeleteBlobRow(h)
  <2>1. withdrawn' = withdrawn \cup {req[h].d} /\ blob' = [blob EXCEPT ![req[h].d] = 0]
    BY <1>5 DEF DeleteBlobRow, Withdraw
  <2>2. \A x : There(x) => There(x)'
    BY <1>0, <1>3, <2>1 DEF There, Known, Tables
  <2>3. Tags'
    BY <1>3 DEF TInv, Tags
  <2> QED
    BY <1>2, <1>3, <2>1, <2>2, <2>3, TagsFrame
<1> QED
  BY <1>4, <1>5

\* A manifest that nobody has tagged goes: withdrawn, or unknown to all.
LEMMA ManifestGone ==
  ASSUME IType, TInv, NEW m \in Manifest, manifests' = manifests \ {m}, ~Tagged(m),
         UNCHANGED <<blob, tag, seen>>,
         withdrawn \subseteq withdrawn', m \in Held => m \in withdrawn',
         \A p \in manifests : m \in Children(p) => m \in withdrawn',
         gc'.todo \subseteq gc.todo, gc'.at \in {gc.at, "idle"},
         \A h \in Handler : \/ HeldBy(h)' = {} /\ req'[h].at # "insertManifest"
                            \/ req'[h] = req[h]
  PROVE  TInv'
<1>1. Tags'
  BY DEF TInv, Tags, Tagged
<1>2. \A p \in manifests : p \in Manifest /\ (m \in Refs(p) => m \in Children(p))
  BY ReferencesAssumption DEF Refs, IType, Tables
<1>3. \A h \in Handler : m \in HeldBy(h) => m \in Held
  BY DEF Held
<1>4. \A x \in Digest \cup Manifest :
        There(x) => \/ There(x)'
                    \/ /\ \A p \in manifests' : x \notin Refs(p)
                       /\ \A h \in Handler : x \notin HeldBy(h)
  <2> SUFFICES ASSUME NEW x \in Digest \cup Manifest, There(x)
               PROVE  \/ There(x)'
                      \/ /\ \A p \in manifests' : x \notin Refs(p)
                         /\ \A h \in Handler : x \notin HeldBy(h)
    OBVIOUS
  <2>1. CASE x = m
    BY <1>2, <1>3, <2>1 DEF There
  <2>2. CASE x # m
    BY <2>2 DEF There, Known
  <2> QED
    BY <2>1, <2>2
<1> QED
  BY <1>1, <1>4, TagsFrame

LEMMA ManifestTags ==
  ASSUME IType, TInv, IType', NEW h \in Handler, ManifestStep(h)
  PROVE  TInv'
<1>0. Requests /\ Tables /\ RequestOK(req[h])
  BY DEF IType, Requests
<1>P. /\ {"insertManifest", "check", "tag"} = Putting
      /\ {"tags", "reap", "others", "untag", "deleteManifest"} = Untagging /\ Putting \cap Untagging = {}
      /\ None \notin Putting
  BY DEF Putting, Untagging, None
<1>1. CASE DeleteBlobRow(h)
  BY <1>1, UploadTags
<1>2. CASE CheckReference(h)
  <2>0. UNCHANGED <<blob, manifests, tag, gc, withdrawn>>
    BY <1>2 DEF CheckReference, tables
  <2>1. CASE Ended(h) /\ seen' = seen
    <3>1. \A k \in Handler : \/ HeldBy(k)' = {} /\ req'[k].at # "insertManifest"
                             \/ req'[k] = req[k]
      BY <1>P, <2>1, HoldsNothing DEF Ended, Others
    <3>2. Tags' /\ \A x : There(x) => There(x)'
      BY <2>0 DEF TInv, Tags, There, Known
    <3> QED
      BY <2>0, <2>1, <3>1, <3>2, TagsFrame
  <2>2. CASE Went(h, "insertManifest") /\ req[h].todo = {} /\ seen' = seen
    <3>1. \A k \in Handler : HeldBy(k)' = HeldBy(k)
      BY <2>2 DEF Went, Others, HeldBy
    <3>2. Tags' /\ Manifests' /\ Listed'
      BY <2>0, <2>2 DEF TInv, Tags, Manifests, Listed, There, Known
    <3>3. Pushes'
      BY <2>0, <2>2, <3>1 DEF TInv, Pushes, There, Known, Went, Others
    <3> QED
      BY <3>2, <3>3 DEF TInv
  <2>3. CASE \E x : Known(x) /\ Struck(h, "check", x) /\ seen' = seen \cup {x}
    <3>1. PICK x : Known(x) /\ Struck(h, "check", x) /\ seen' = seen \cup {x}
      BY <2>3
    <3>2. /\ HeldBy(h)' \subseteq HeldBy(h) \cup {x}
          /\ \A k \in Handler : k # h => HeldBy(k)' = HeldBy(k)
      BY <3>1 DEF Struck, Others, HeldBy
    <3>3. Tags' /\ Manifests' /\ Listed'
      BY <2>0, <3>1 DEF TInv, Tags, Manifests, Listed, There, Known
    <3>4. \A y : There(y)' = There(y)
      BY <2>0 DEF There, Known
    <3>5. There(x)
      BY <3>1 DEF There
    <3>6. \A k \in Handler : k # h => req'[k] = req[k]
      BY <3>1 DEF Struck, Others
    <3>7. req'[h].at = "check"
      BY <3>1 DEF Struck
    <3>8. Pushes'
      BY <2>0, <3>1, <3>2, <3>4, <3>5, <3>6, <3>7 DEF TInv, Pushes
    <3> QED
      BY <3>3, <3>8 DEF TInv
  <2> QED
    BY <1>0, <1>2, <2>1, <2>2, <2>3, TagSteps
<1>3. CASE InsertManifest(h)
  <2> DEFINE m == req[h].m
  <2>0. /\ UNCHANGED <<blob, tag, gc, withdrawn, seen>> /\ manifests' = manifests \cup {m}
        /\ req[h].at = "insertManifest" /\ Others(h)
        /\ Ended(h) \/ Went(h, "tag")
    BY <1>0, <1>3, TagSteps DEF InsertManifest, Ended, Went
  <2>1. req[h].todo = {} /\ req[h].op = "put"
    BY <1>0, <1>P, <2>0 DEF TInv, Pushes, RequestOK
  <2>2. HeldBy(h) = Refs(m)
    BY <2>1 DEF HeldBy, Refs
  <2>3. \A x : There(x) => There(x)'
    BY <2>0 DEF There, Known
  <2>4. Tags'
    BY <2>0 DEF TInv, Tags
  <2>5. Manifests'
    BY <2>0, <2>2, <2>3 DEF TInv, Manifests, Pushes
  <2>6. \A k \in Handler : \/ HeldBy(k)' = HeldBy(k) /\ req'[k].at # "insertManifest"
                           \/ req'[k] = req[k] /\ HeldBy(k)' = HeldBy(k)
                           \/ HeldBy(k)' = {} /\ req'[k].at # "insertManifest"
    <3>1. CASE Ended(h)
      <4>1. HeldBy(h)' = {} /\ req'[h].at # "insertManifest"
        BY <3>1, <1>P, HoldsNothing DEF Ended
      <4> QED
        BY <2>0, <4>1 DEF Others, HeldBy
    <3>2. CASE Went(h, "tag")
      BY <3>2 DEF Went, Others, HeldBy
    <3> QED
      BY <2>0, <3>1, <3>2
  <2>7. Pushes'
    BY <2>0, <2>3, <2>6 DEF TInv, Pushes
  <2>8. Listed'
    <3>1. gc.at \in {"manifests", "blobs"} => Refs(m) \subseteq seen
      BY <2>2 DEF TInv, Pushes
    <3> HIDE DEF m
    <3> QED
      BY <2>0, <3>1 DEF TInv, Listed
  <2> QED
    BY <2>4, <2>5, <2>7, <2>8 DEF TInv
<1>4. CASE UpsertTag(h) \/ ListTags(h) \/ Untag(h) \/ FindOtherTags(h)
  <2>1. Requests' /\ Others(h) /\ req'[h].at \notin Putting
    BY <1>0, <1>4, <1>P, TagSteps DEF Ended, Went, Struck
  <2>2. \A k \in Handler : \/ HeldBy(k)' = {} /\ req'[k].at # "insertManifest"
                           \/ req'[k] = req[k]
    BY <2>1, HoldsNothing DEF Others
  <2>3. UNCHANGED <<blob, manifests, gc, seen, withdrawn>>
    BY <1>4 DEF UpsertTag, ListTags, Untag, FindOtherTags, tables
  <2>4. \A x : There(x) => There(x)'
    BY <2>3 DEF There, Known
  <2>5. Tags'
    <3>1. CASE UpsertTag(h)
      BY <1>0, <3>1 DEF UpsertTag, TInv, Tags, Tables
    <3>2. CASE Untag(h)
      BY <1>0, <3>2 DEF Untag, TInv, Tags, Tables
    <3>3. CASE ListTags(h) \/ FindOtherTags(h)
      BY <3>3 DEF ListTags, FindOtherTags, TInv, Tags, tables
    <3> QED
      BY <1>4, <3>1, <3>2, <3>3
  <2> QED
    BY <2>2, <2>3, <2>4, <2>5, TagsFrame
<1>5. CASE ReapManifest(h) \/ DeleteUntagged(h)
  <2> DEFINE m == req[h].m
  <2>1. Ended(h) /\ m \in Manifest
    BY <1>0, <1>5, <1>P, TagSteps DEF RequestOK
  <2>2. \A k \in Handler : \/ HeldBy(k)' = {} /\ req'[k].at # "insertManifest"
                           \/ req'[k] = req[k]
    BY <2>1, <1>P, HoldsNothing DEF Ended, Others
  <2>3. UNCHANGED <<blob, tag, gc, seen>>
    BY <1>5 DEF ReapManifest, DeleteUntagged
  <2>4. CASE manifests' = manifests /\ withdrawn' = withdrawn
    <3>1. Tags' /\ \A x : There(x) => There(x)'
      BY <2>3, <2>4 DEF TInv, Tags, There, Known
    <3> QED
      BY <2>2, <2>3, <2>4, <3>1, TagsFrame
  <2>5. CASE /\ manifests' = manifests \ {m} /\ ~Tagged(m)
             /\ Withdraw(m, Parents(m) # {})
    <3>1. withdrawn \subseteq withdrawn' /\ (m \in Held => m \in withdrawn')
      BY <2>5 DEF Withdraw
    <3>2. \A p \in manifests : m \in Children(p) => m \in withdrawn'
      BY <2>5 DEF Withdraw, Parents
    <3> HIDE DEF m
    <3> QED
      BY <2>1, <2>2, <2>3, <2>5, <3>1, <3>2, ManifestGone
  <2>6. CASE ReapManifest(h)
    <3>1. CASE ~Tagged(m) /\ Parents(m) = {}
      BY <2>5, <2>6, <3>1 DEF ReapManifest, Withdraw
    <3>2. CASE ~(~Tagged(m) /\ Parents(m) = {})
      BY <2>4, <2>6, <3>2 DEF ReapManifest
    <3> QED
      BY <3>1, <3>2
  <2>7. CASE DeleteUntagged(h)
    <3>1. CASE m \in manifests /\ ~Tagged(m)
      BY <2>5, <2>7, <3>1 DEF DeleteUntagged
    <3>2. CASE ~(m \in manifests /\ ~Tagged(m))
      BY <2>4, <2>7, <3>2 DEF DeleteUntagged
    <3> QED
      BY <3>1, <3>2
  <2> QED
    BY <1>5, <2>6, <2>7
<1> QED
  BY <1>1, <1>2, <1>3, <1>4, <1>5 DEF ManifestStep

\* A push begins having found nothing.
LEMMA RequestTags ==
  ASSUME IType, TInv, IType', NEW h \in Handler, Request(h)
  PROVE  TInv'
<1>0. Requests /\ Tables /\ Requests'
  BY DEF IType
<1>1. Others(h) /\ HeldBy(h)' = {} /\ req'[h].at # "insertManifest"
  <2>1. CASE \E m \in Manifest : \E t \in Tag \cup {None} : BeginPut(h, m, t)
    BY <1>0, <2>1, Beginnings DEF Began, HeldBy
  <2>2. CASE ~ \E m \in Manifest : \E t \in Tag \cup {None} : BeginPut(h, m, t)
    <3>1. /\ {"session", "body", "deleteRow", "unlink", "untag", "tags", None} \cap Putting = {}
          /\ Filling \cap Putting = {}
      BY DEF Putting, Filling, None
    <3>2. Others(h) /\ req'[h].at \notin Putting
      BY <1>0, <2>2, <3>1, Beginnings, Idle DEF Request, Began, Stayed
    <3> QED
      BY <1>0, <3>2, HoldsNothing
  <2> QED
    BY <2>1, <2>2
<1>2. UNCHANGED <<blob, manifests, tag, gc, seen, withdrawn>>
  <2>1. CASE \E u \in Upload : Cancel(h, u) \/ CancelElsewhere(h, u)
    BY <2>1 DEF Cancel, CancelElsewhere
  <2>2. CASE ~ \E u \in Upload : Cancel(h, u) \/ CancelElsewhere(h, u)
    BY <2>2 DEF Request, BeginSession, BeginMonolithic, Create, BeginDeleteBlob, BeginPatch, BeginComplete,
       ReadSession, BeginPut, BeginDeleteManifest, BeginDeleteTag, tables
  <2> QED
    BY <2>1, <2>2
<1>3. Tags' /\ \A x : There(x) => There(x)'
  BY <1>2 DEF TInv, Tags, There, Known
<1> QED
  BY <1>1, <1>2, <1>3, TagsFrame DEF Others

\* Nor do the time that passes, the collector and crashes.
LEMMA OtherTags ==
  ASSUME IType, TInv, IType',
         \/ (\E u \in Upload : Expire(u)) \/ GcStep \/ CrashGc \/ GcFails \/ UNCHANGED vars
         \/ CrashApi \/ \E h \in Handler : Fails(h)
  PROVE  TInv'
<1>0. Requests /\ Tables /\ GcOK(gc)
  BY DEF IType
<1>K. ASSUME UNCHANGED req
      PROVE  /\ Held' = Held
             /\ \A h \in Handler : HeldBy(h)' = HeldBy(h) /\ req'[h] = req[h]
  BY <1>K DEF Held, HeldBy
<1>C. ASSUME UNCHANGED <<blob, manifests, tag, withdrawn>>
      PROVE  Tags' /\ Manifests' /\ \A x : There(x)' = There(x)
  BY <1>C DEF TInv, Tags, Manifests, There, Known
<1>1. CASE (\E u \in Upload : Expire(u)) \/ GcEnd \/ CrashGc \/ UNCHANGED vars
  <2>1. /\ UNCHANGED <<blob, manifests, tag, seen, withdrawn>> /\ UNCHANGED req
        /\ gc' = gc \/ gc' = IdleGc
    BY <1>1 DEF Expire, GcEnd, CrashGc, vars, tables
  <2> QED
    BY <1>C, <1>K, <2>1, Rests, TagsFrame
<1>2. CASE GcListUploads
  <2>1. UNCHANGED <<blob, manifests, tag, seen, withdrawn>> /\ UNCHANGED req
    BY <1>2 DEF GcListUploads, tables
  <2>2. gc'.at = "uploads"
    BY <1>2, Lists, Stages DEF GcListUploads
  <2> QED
    BY <1>C, <1>K, <2>1, <2>2 DEF TInv, Pushes, Listed
<1>3. CASE (\E x \in gc.todo : GcUnlink(x)) \/ \E x \in gc.todo : GcDeleteUpload(x)
  <2>1. UNCHANGED <<blob, manifests, tag, seen, withdrawn>> /\ UNCHANGED req
    BY <1>3 DEF GcUnlink, GcDeleteUpload, tables
  <2>2. gc'.at = gc.at /\ gc'.todo \subseteq gc.todo
    BY <1>0, <1>3, Takes, Drops DEF GcUnlink, GcDeleteUpload
  <2> QED
    BY <1>C, <1>K, <2>1, <2>2, TagsFrame
<1>4. CASE GcListManifests
  <2>1. UNCHANGED <<blob, manifests, tag, withdrawn>> /\ UNCHANGED req /\ seen' = Held
    BY <1>4 DEF GcListManifests, tables
  <2>2. gc'.at = "manifests" /\ gc'.todo = OrphanManifests
    BY <1>0, <1>4, Stages DEF GcListManifests, OrphanManifests, Tables
  <2>3. Pushes'
    BY <1>C, <1>K, <2>1 DEF TInv, Pushes, Held
  <2>4. \A m \in manifests : \A x \in OrphanManifests : x \notin Refs(m)
    BY <1>0, ReferencesAssumption DEF OrphanManifests, Parents, Refs, Tables
  <2>5. Listed'
    BY <2>1, <2>2, <2>4 DEF Listed
  <2> QED
    BY <1>C, <2>1, <2>3, <2>5 DEF TInv
<1>5. CASE GcListBlobs
  <2>1. UNCHANGED <<blob, manifests, tag, withdrawn>> /\ UNCHANGED req /\ seen' = Held
    BY <1>5 DEF GcListBlobs, tables
  <2>2. gc'.at = "blobs" /\ \A x \in gc'.todo : x.key \in OrphanBlobs
    BY <1>5, Lists, Stages DEF GcListBlobs
  <2>3. Pushes'
    BY <1>C, <1>K, <2>1 DEF TInv, Pushes, Held
  <2>4. \A m \in manifests : \A d \in OrphanBlobs : d \notin Refs(m)
    BY <1>0, ReferencesAssumption DEF OrphanBlobs, Refs, Tables
  <2>5. Listed'
    BY <2>1, <2>2, <2>4 DEF Listed
  <2> QED
    BY <1>C, <2>1, <2>3, <2>5 DEF TInv
<1>6. ASSUME NEW m \in gc.todo, GcDeleteManifest(m) PROVE TInv'
  <2>1. /\ UNCHANGED <<blob, tag, seen>> /\ UNCHANGED req /\ gc.at = "manifests" /\ m \in Manifest
        /\ gc'.at = gc.at /\ gc'.todo \subseteq gc.todo
    BY <1>0, <1>6, Drops DEF GcDeleteManifest, GcOK
  <2>2. CASE Tagged(m) \/ m \notin manifests
    <3>1. manifests' = manifests /\ withdrawn' = withdrawn
      BY <1>6, <2>2 DEF GcDeleteManifest
    <3> QED
      BY <1>C, <1>K, <2>1, <3>1, TagsFrame
  <2>3. CASE ~Tagged(m) /\ m \in manifests
    <3>1. manifests' = manifests \ {m} /\ Withdraw(m, FALSE)
      BY <1>6, <2>3 DEF GcDeleteManifest
    <3>2. withdrawn \subseteq withdrawn' /\ (m \in Held \cup seen => m \in withdrawn')
      BY <3>1 DEF Withdraw
    <3>3. \A p \in manifests : m \in Children(p) => m \in withdrawn'
      BY <2>1, <3>2 DEF TInv, Listed, Refs
    <3> QED
      BY <1>K, <2>1, <2>3, <3>1, <3>2, <3>3, ManifestGone
  <2> QED
    BY <2>2, <2>3
<1>7. ASSUME NEW x \in gc.todo, GcDeleteBlob(x) PROVE TInv'
  <2>1. /\ UNCHANGED <<manifests, tag, seen>> /\ UNCHANGED req /\ gc.at = "blobs"
        /\ gc'.at = gc.at /\ gc'.todo \subseteq gc.todo /\ x.key \in Digest
        /\ blob' = [blob EXCEPT ![x.key] = 0] /\ Withdraw(x.key, FALSE)
    BY <1>0, <1>7, Drops DEF GcDeleteBlob, GcOK, BlobItem
  <2>2. withdrawn \subseteq withdrawn' /\ (x.key \in Held \cup seen => x.key \in withdrawn')
    BY <2>1 DEF Withdraw
  <2>3. \A m \in manifests : x.key \in Refs(m) => x.key \in withdrawn'
    BY <2>1, <2>2 DEF TInv, Listed
  <2>4. \A h \in Handler : x.key \in HeldBy(h) => x.key \in withdrawn'
    BY <2>2 DEF Held
  <2>5. \A y \in Digest \cup Manifest : y # x.key /\ There(y) => There(y)'
    BY <1>0, <2>1, <2>2 DEF There, Known, Tables
  <2>6. Tags'
    BY <2>1 DEF TInv, Tags
  <2>7. \A y \in Digest \cup Manifest :
          There(y) => \/ There(y)'
                      \/ /\ \A m \in manifests' : y \notin Refs(m)
                         /\ \A h \in Handler : y \notin HeldBy(h)
    <3> SUFFICES ASSUME NEW y \in Digest \cup Manifest, There(y)
                 PROVE  \/ There(y)'
                        \/ /\ \A m \in manifests' : y \notin Refs(m)
                           /\ \A h \in Handler : y \notin HeldBy(h)
      OBVIOUS
    <3>1. CASE y # x.key
      BY <2>5, <3>1
    <3>2. CASE y = x.key
      BY <2>1, <2>3, <2>4, <3>2 DEF There
    <3> QED
      BY <3>1, <3>2
  <2> QED
    BY <1>K, <2>1, <2>2, <2>6, <2>7, TagsFrame
<1>8. CASE CrashApi
  <2>1. UNCHANGED <<blob, manifests, tag, seen, withdrawn>> /\ UNCHANGED gc
    BY <1>8 DEF CrashApi, tables
  <2>2. \A h \in Handler : req'[h] = NoRequest
    BY <1>8 DEF CrashApi
  <2>3. \A h \in Handler : HeldBy(h)' = {} /\ req'[h].at # "insertManifest"
    BY <2>2 DEF HeldBy, NoRequest, None
  <2> QED
    BY <1>C, <2>1, <2>3, TagsFrame
<1>9. CASE GcFails
  <2>1. UNCHANGED <<blob, manifests, tag, seen, withdrawn>> /\ UNCHANGED req
    BY <1>9 DEF GcFails, tables
  <2>2. gc'.at = gc.at /\ gc'.todo \subseteq gc.todo
    BY <1>0, <1>9, Drops DEF GcFails
  <2> QED
    BY <1>C, <1>K, <2>1, <2>2, TagsFrame
<1>10. CASE \E h \in Handler : Fails(h)
  <2>1. UNCHANGED <<blob, manifests, tag, seen, withdrawn>> /\ UNCHANGED gc
    BY <1>10 DEF Fails, tables
  <2>2. \A h \in Handler : (HeldBy(h)' = {} /\ req'[h].at # "insertManifest") \/ req'[h] = req[h]
    BY <1>0, <1>10, Ends DEF Fails, Ended, Others, HeldBy, None
  <2> QED
    BY <1>C, <2>1, <2>2, TagsFrame
<1> QED
  BY <1>1, <1>2, <1>3, <1>4, <1>5, <1>6, <1>7, <1>8, <1>9, <1>10 DEF GcStep

\* A tag can be pulled with all it refers to, unless a part of it was deleted
\* under the push that had seen it, or by a request that asks no one: the
\* routes' lookups, the panel's and the collector's deletions, in any order.
THEOREM TagsWhole == Spec => []TagsPullable
<1>1. Init => TInv
  <2> SUFFICES ASSUME Init PROVE TInv
    OBVIOUS
  <2>1. \A h \in Handler : HeldBy(h) = {} /\ req[h].at # "insertManifest"
    BY DEF Init, HeldBy, NoRequest, None
  <2>2. gc.todo = {}
    BY Rests DEF Init
  <2> QED
    BY <2>1, <2>2 DEF Init, TInv, Tags, Manifests, Pushes, Listed
<1>2. IType /\ TInv /\ IType' /\ [Next]_vars => TInv'
  BY UploadTags, ManifestTags, RequestTags, OtherTags DEF Next, Step
<1>3. IType /\ TInv => TagsPullable
  <2> SUFFICES ASSUME IType, TInv, NEW t \in Tag, tag[t] # None
               PROVE  /\ tag[t] \in manifests
                      /\ \A m \in {tag[t]} \cup Children(tag[t]) : Whole(Repo(t), m)
    BY DEF TagsPullable
  <2>1. tag[t] \in manifests
    BY DEF TInv, Tags
  <2>2. ASSUME NEW m \in {tag[t]} \cup Children(tag[t]), m \notin withdrawn
        PROVE  Whole(Repo(t), m)
    <3>1. m \in manifests
      <4>1. CASE m = tag[t]
        BY <2>1, <4>1
      <4>2. CASE m \in Children(tag[t])
        <5>1. There(m) /\ m \in Manifest
          BY <2>1, <4>2, ReferencesAssumption DEF TInv, Manifests, Refs, IType, Tables
        <5> QED
          BY <2>2, <5>1, ReferencesAssumption DEF There, Known
      <4> QED
        BY <2>2, <4>1, <4>2
    <3>2. ReachableInRepo(Repo(t), m)
      BY <2>1, <2>2 DEF ReachableInRepo
    <3>3. \A d \in Blobs(m) : blob[d] # 0 \/ d \in withdrawn
      BY <3>1, ReferencesAssumption DEF TInv, Manifests, Refs, There, Known, IType, Tables
    <3> QED
      BY <3>1, <3>2, <3>3 DEF Whole, FoundInRepo
  <2>3. \A m \in {tag[t]} \cup Children(tag[t]) : Whole(Repo(t), m)
    BY <2>2 DEF Whole
  <2> QED
    BY <2>1, <2>3
<1> QED
  BY <1>1, <1>2, <1>3, TypesInvariant, PTL DEF Spec

-----------------------------------------------------------------------------
(* The large objects.  What each step of a request does to them, to the     *)
(* rows of the blobs and to the sessions.                                   *)

Wrote(o, c) == /\ Len(object') = Len(object) /\ object'[o] = c
               /\ \A p \in 1 .. Len(object) : p # o => object'[p] = object[p]

Inserted(d, o) == /\ \A e \in Digest : e # d => blob'[e] = blob[e]
                  /\ blob'[d] = IF blob[d] = 0 THEN o ELSE blob[d]
                  /\ orphaned \subseteq orphaned' /\ (blob'[d] = o \/ o \in orphaned')

SameSessions == \A v \in Upload : upload'[v].o = upload[v].o

LEMMA Effects ==
  ASSUME IType, NEW h \in Handler
  PROVE  /\ InsertSession(h) =>
              /\ UNCHANGED <<blob, object, gc, orphaned, faults>>
              /\ \E u \in Upload : /\ upload[u].o = 0 /\ upload'[u].o = req[h].o
                                   /\ \A v \in Upload : v # u => upload'[v].o = upload[v].o
         /\ WriteMonolithic(h) =>
              /\ UNCHANGED <<blob, upload, gc, orphaned, faults>>
              /\ \/ Wrote(req[h].o, req[h].d) /\ Went(h, "row")
                 \/ Wrote(req[h].o, Absent) /\ Ended(h)
         /\ InsertMonolithic(h) =>
              UNCHANGED <<upload, object, gc, faults>> /\ Inserted(req[h].d, req[h].o)
         /\ WriteChunk(h) =>
              /\ UNCHANGED <<blob, upload, gc, orphaned, faults>>
              /\ Exists(req[h].o) /\ \E c : Wrote(req[h].o, c)
         /\ EndBody(h) => UNCHANGED <<blob, upload, object, gc, orphaned, faults>>
         /\ UpdateReceived(h) => UNCHANGED <<blob, object, gc, orphaned, faults>> /\ SameSessions
         /\ Verify(h) =>
              /\ UNCHANGED <<blob, upload, gc, orphaned, faults>>
              /\ \/ Ended(h) /\ object' = object
                 \/ Went(h, "exists") /\ object' = object /\ object[req[h].o] = req[h].d
                 \/ Went(h, "drop") /\ Wrote(req[h].o, Absent)
         /\ CheckExisting(h) => UNCHANGED <<blob, upload, object, gc, orphaned, faults>>
         /\ ReuseBlob(h) => UNCHANGED <<blob, upload, gc, orphaned, faults>> /\ Wrote(req[h].o, Absent)
         /\ CommitBlob(h) => UNCHANGED <<upload, object, gc, faults>> /\ Inserted(req[h].d, req[h].o)
         /\ DropSession(h) =>
              /\ UNCHANGED <<blob, object, gc, orphaned, faults>>
              /\ \A v \in Upload :
                   upload'[v].o = IF v = req[h].u /\ upload[v].o = req[h].o THEN 0 ELSE upload[v].o
         /\ Unlink(h) => UNCHANGED <<blob, upload, gc, orphaned, faults>> /\ Wrote(req[h].o, Absent)
         /\ UnlinkFails(h) =>
              UNCHANGED <<blob, upload, object, gc>> /\ orphaned' = orphaned \cup {req[h].o} /\ faults' = faults + 1
         /\ DeleteBlobRow(h) =>
              /\ UNCHANGED <<upload, object, gc, faults>>
              /\ req[h].d \in Digest /\ blob' = [blob EXCEPT ![req[h].d] = 0]
              /\ orphaned' = orphaned \cup ({blob[req[h].d]} \ {0, req[h].o})
<1>0. /\ Tables /\ Requests /\ RequestOK(req[h]) /\ blob \in [Digest -> Nat] /\ req[h].o \in Nat
      /\ upload \in [Upload -> SessionType]
  BY DEF IType, Tables, Requests, RequestType
<1>S. /\ {"session", "body", "row", "unlink", "deleteRow"} \subseteq Holding
      /\ {"write", "final", "empty", "verify", "reuse", "insert", "drop"} \subseteq Holding
      /\ {"write", "final", "received", "empty", "verify", "exists", "reuse", "insert", "drop"} = OfSession
  BY DEF Holding, Making, OfSession, Filling, Checked, Removing
<1>W. ASSUME NEW c \in Content, object' = [object EXCEPT ![req[h].o] = c], req[h].at \in Holding
      PROVE  Wrote(req[h].o, c)
  BY <1>0, <1>W, Holds, Writes DEF Wrote
<1>C. {Absent, Garbage} \subseteq Content /\ Digest \subseteq Content
  BY DEF Content
<1>I. ASSUME NEW d \in Digest, InsertRow(d, req[h].o) PROVE Inserted(d, req[h].o)
  BY <1>0, <1>I, Inserts DEF InsertRow, Inserted
<1>D. req[h].at \in Completing \cup {"body", "row", "deleteRow"} => req[h].d \in Digest
  BY <1>0 DEF RequestOK
<1>E. Completing = {"final", "empty", "verify", "exists", "insert", "reuse", "drop"}
  BY DEF Completing, Checked
<1>1. ASSUME InsertSession(h)
      PROVE  /\ UNCHANGED <<blob, object, gc, orphaned, faults>>
             /\ \E u \in Upload : /\ upload[u].o = 0 /\ upload'[u].o = req[h].o
                                  /\ \A v \in Upload : v # u => upload'[v].o = upload[v].o
  BY <1>0, <1>1 DEF InsertSession, NoSession
<1>2. ASSUME WriteMonolithic(h)
      PROVE  /\ UNCHANGED <<blob, upload, gc, orphaned, faults>>
             /\ \/ Wrote(req[h].o, req[h].d) /\ Went(h, "row")
                \/ Wrote(req[h].o, Absent) /\ Ended(h)
  <2>1. (Went(h, "row") \/ Ended(h)) /\ req[h].at = "body" /\ req[h].d \in Digest
    BY <1>0, <1>2, <1>D, Steps
  <2>2. \/ object' = [object EXCEPT ![req[h].o] = req[h].d] /\ GoTo(h, "row")
        \/ object' = [object EXCEPT ![req[h].o] = Absent] /\ End(h)
    BY <1>2 DEF WriteMonolithic, Unlinked
  <2>3. GoTo(h, "row") => Went(h, "row")
    BY <1>0, <1>S, <2>1, Goes DEF Holding, Making, OfSession, Completing, Filling, Checked, Removing, Putting,
       Untagging
  <2>4. End(h) => Ended(h)
    BY <1>0, Ends
  <2>5. UNCHANGED <<blob, upload, gc, orphaned, faults>>
    BY <1>2 DEF WriteMonolithic, tables
  <2> QED
    BY <1>W, <1>C, <1>S, <2>1, <2>2, <2>3, <2>4, <2>5
<1>3. InsertMonolithic(h) => UNCHANGED <<upload, object, gc, faults>> /\ Inserted(req[h].d, req[h].o)
  BY <1>0, <1>D, <1>I, Steps DEF InsertMonolithic
<1>4. ASSUME WriteChunk(h)
      PROVE  /\ UNCHANGED <<blob, upload, gc, orphaned, faults>>
             /\ Exists(req[h].o) /\ \E c : Wrote(req[h].o, c)
  <2>1. req[h].at \in Holding
    BY <1>0, <1>4, <1>S, Steps
  <2>2. UNCHANGED <<blob, upload, gc, orphaned, faults>> /\ Exists(req[h].o)
    BY <1>4 DEF WriteChunk, tables
  <2>3. PICK c \in Digest \cup {Garbage} : object' = [object EXCEPT ![req[h].o] = c]
    BY <1>4 DEF WriteChunk
  <2>4. Wrote(req[h].o, c)
    BY <1>W, <1>C, <2>1, <2>3
  <2> QED
    BY <2>2, <2>4
<1>13. EndBody(h) => UNCHANGED <<blob, upload, object, gc, orphaned, faults>>
  BY DEF EndBody, tables
<1>14. UnlinkFails(h) =>
         UNCHANGED <<blob, upload, object, gc>> /\ orphaned' = orphaned \cup {req[h].o} /\ faults' = faults + 1
  BY DEF UnlinkFails, Fault, tables
<1>5. ASSUME UpdateReceived(h)
      PROVE  UNCHANGED <<blob, object, gc, orphaned, faults>> /\ SameSessions
  <2>1. \A u \in Upload : [upload[u] EXCEPT !.received = 1].o = upload[u].o
    BY <1>0 DEF SessionType
  <2>2. \A u \in Upload : upload'[u] \in {upload[u], [upload[u] EXCEPT !.received = 1]}
    BY <1>5 DEF UpdateReceived
  <2>3. SameSessions
    BY <2>1, <2>2 DEF SameSessions
  <2> QED
    BY <1>5, <2>3 DEF UpdateReceived
<1>6. ASSUME Verify(h)
      PROVE  /\ UNCHANGED <<blob, upload, gc, orphaned, faults>>
             /\ \/ Ended(h) /\ object' = object
                \/ Went(h, "exists") /\ object' = object /\ object[req[h].o] = req[h].d
                \/ Went(h, "drop") /\ Wrote(req[h].o, Absent)
  <2>1. req[h].at \in {"empty", "verify"}
    BY <1>0, <1>6, Steps
  <2>2. UNCHANGED <<blob, upload, gc, orphaned, faults>>
    BY <1>6 DEF Verify, tables
  <2>3. \/ End(h) /\ object' = object
        \/ GoTo(h, "exists") /\ object' = object /\ object[req[h].o] = req[h].d
        \/ GoTo(h, "drop") /\ object' = [object EXCEPT ![req[h].o] = Absent]
    BY <1>6 DEF Verify, Unlinked
  <2>4. \A at \in {"exists", "drop"} : GoTo(h, at) => Went(h, at)
    BY <1>0, <2>1, Goes DEF Holding, Making, OfSession, Completing, Filling, Checked, Removing, Putting, Untagging
  <2>5. End(h) => Ended(h)
    BY <1>0, Ends
  <2> QED
    BY <1>W, <1>C, <1>S, <2>1, <2>2, <2>3, <2>4, <2>5
<1>7. CheckExisting(h) => UNCHANGED <<blob, upload, object, gc, orphaned, faults>>
  BY DEF CheckExisting, tables
<1>8. ReuseBlob(h) => UNCHANGED <<blob, upload, gc, orphaned, faults>> /\ Wrote(req[h].o, Absent)
  BY <1>0, <1>W, <1>C, <1>S, Steps DEF ReuseBlob, Unlinked, tables
<1>9. CommitBlob(h) => UNCHANGED <<upload, object, gc, faults>> /\ Inserted(req[h].d, req[h].o)
  BY <1>0, <1>D, <1>E, <1>I, Steps DEF CommitBlob
<1>10. ASSUME DropSession(h)
       PROVE  /\ UNCHANGED <<blob, object, gc, orphaned, faults>>
              /\ \A v \in Upload :
                   upload'[v].o = IF v = req[h].u /\ upload[v].o = req[h].o THEN 0 ELSE upload[v].o
  <2>1. req[h].u \in Upload
    BY <1>0, <1>10, <1>S, Steps DEF RequestOK
  <2>2. upload' = [upload EXCEPT ![req[h].u] = IF upload[req[h].u].o = req[h].o THEN NoSession ELSE upload[req[h].u]]
    BY <1>10 DEF DropSession
  <2>3. NoSession.o = 0
    BY DEF NoSession
  <2>4. \A v \in Upload : upload'[v].o = IF v = req[h].u /\ upload[v].o = req[h].o THEN 0 ELSE upload[v].o
    BY <1>0, <2>1, <2>2, <2>3
  <2> QED
    BY <1>10, <2>4 DEF DropSession
<1>11. Unlink(h) => UNCHANGED <<blob, upload, gc, orphaned, faults>> /\ Wrote(req[h].o, Absent)
  BY <1>0, <1>W, <1>C, <1>S, Steps DEF Unlink, Unlinked, tables
<1>12. DeleteBlobRow(h) =>
         /\ UNCHANGED <<upload, object, gc, faults>>
         /\ req[h].d \in Digest /\ blob' = [blob EXCEPT ![req[h].d] = 0]
         /\ orphaned' = orphaned \cup ({blob[req[h].d]} \ {0, req[h].o})
  BY <1>0, <1>D, Steps DEF DeleteBlobRow
<1> QED
  BY <1>1, <1>2, <1>3, <1>4, <1>5, <1>6, <1>7, <1>8, <1>9, <1>10, <1>11, <1>12, <1>13, <1>14

LEMMA RequestEffects ==
  ASSUME IType, NEW h \in Handler, Request(h)
  PROVE  /\ UNCHANGED <<blob, gc, faults>> /\ orphaned \subseteq orphaned'
         /\ \/ /\ Began(h, "session") \/ Began(h, "body")
               /\ req'[h].o = Len(object) + 1 /\ upload' = upload /\ Len(object') = Len(object) + 1
               /\ \A p \in 1 .. Len(object) : object'[p] = object[p]
            \/ /\ UNCHANGED <<upload, object>> /\ Began(h, "deleteRow")
               /\ \E d \in Digest : req'[h].o = blob[d] /\ req'[h].d = d /\ blob[d] # 0
            \/ /\ UNCHANGED <<upload, object>> /\ \E at \in Filling : Began(h, at)
               /\ \E u \in Upload : req'[h].o = upload[u].o /\ req'[h].u = u /\ upload[u].o # 0
            \/ /\ object' = object /\ Began(h, "unlink")
               /\ \E u \in Upload : /\ req'[h].o = upload[u].o /\ upload[u].o # 0 /\ upload'[u].o = 0
                                    /\ \A v \in Upload : v # u => upload'[v].o = upload[v].o
            \/ /\ object' = object /\ Others(h) /\ req[h] = NoRequest /\ req'[h] = NoRequest
               /\ \E u \in Upload : /\ upload[u].o \in orphaned' /\ upload'[u].o = 0
                                    /\ \A v \in Upload : v # u => upload'[v].o = upload[v].o
            \/ /\ UNCHANGED <<upload, object>> /\ req'[h].o = 0
               /\ \E at \in Putting \cup Untagging : Began(h, at)
<1>0. Tables /\ Requests /\ object \in Seq(Content) /\ Empty \in Content /\ upload \in [Upload -> SessionType]
  BY DEF IType, Tables, Content
<1>1. CASE BeginSession(h) \/ \E d \in Digest : BeginMonolithic(h, d)
  <2>0. (Began(h, "session") \/ Began(h, "body")) /\ req'[h].o = Len(object) + 1
    <3>1. ASSUME BeginSession(h) PROVE Began(h, "session") /\ req'[h].o = Len(object) + 1
      BY <1>0, <3>1, Beginnings
    <3>2. ASSUME NEW d \in Digest, BeginMonolithic(h, d)
          PROVE  Began(h, "body") /\ req'[h].o = Len(object) + 1
      BY <1>0, <3>2, Beginnings
    <3> QED
      BY <1>1, <3>1, <3>2
  <2>1. /\ Began(h, "session") \/ Began(h, "body")
        /\ req'[h].o = Len(object) + 1
        /\ UNCHANGED <<blob, upload, gc, orphaned, faults>>
        /\ object' = Append(object, Empty)
    BY <1>1, <2>0 DEF BeginSession, BeginMonolithic, Create, tables
  <2>2. Len(object') = Len(object) + 1 /\ \A p \in 1 .. Len(object) : object'[p] = object[p]
    BY <1>0, <2>1, AppendProperties
  <2> QED
    BY <2>1, <2>2
<1>2. ASSUME NEW d \in Digest, BeginDeleteBlob(h, d)
      PROVE  /\ UNCHANGED <<blob, upload, object, gc, orphaned, faults>>
             /\ Began(h, "deleteRow") /\ req'[h].o = blob[d] /\ req'[h].d = d /\ blob[d] # 0
  BY <1>0, <1>2, Beginnings DEF BeginDeleteBlob, tables
<1>3. ASSUME NEW u \in Upload, BeginPatch(h, u) \/ BeginComplete(h, u)
      PROVE  /\ UNCHANGED <<blob, upload, object, gc, orphaned, faults>>
             /\ \E at \in Filling : Began(h, at)
             /\ req'[h].o = upload[u].o /\ req'[h].u = u /\ upload[u].o # 0
  <2>1. (\E at \in Filling : Began(h, at)) /\ req'[h].o = upload[u].o /\ req'[h].u = u /\ upload[u].o # 0
    BY <1>0, <1>3, Beginnings
  <2> QED
    BY <1>3, <2>1 DEF BeginPatch, BeginComplete, ReadSession, tables
<1>4. ASSUME NEW u \in Upload, Cancel(h, u)
      PROVE  /\ UNCHANGED <<blob, object, gc, orphaned, faults>>
             /\ Began(h, "unlink") /\ req'[h].o = upload[u].o /\ upload[u].o # 0 /\ upload'[u].o = 0
             /\ \A v \in Upload : v # u => upload'[v].o = upload[v].o
  BY <1>0, <1>4, Beginnings DEF Cancel, NoSession
<1>5. CASE \/ \E m \in Manifest : \E t \in Tag \cup {None} : BeginPut(h, m, t)
           \/ \E m \in Manifest : \E t \in Tag : BeginDeleteManifest(h, m, t)
           \/ \E t \in Tag : BeginDeleteTag(h, t)
  <2>1. req'[h].o = 0 /\ (Began(h, "check") \/ Began(h, "untag") \/ Began(h, "tags"))
    <3>1. ASSUME NEW m \in Manifest, NEW t \in Tag \cup {None}, BeginPut(h, m, t)
          PROVE  req'[h].o = 0 /\ Began(h, "check")
      BY <1>0, <3>1, Beginnings
    <3>2. ASSUME NEW m \in Manifest, NEW t \in Tag, BeginDeleteManifest(h, m, t)
          PROVE  req'[h].o = 0 /\ Began(h, "tags")
      BY <1>0, <3>2, Beginnings
    <3>3. ASSUME NEW t \in Tag, BeginDeleteTag(h, t)
          PROVE  req'[h].o = 0 /\ Began(h, "untag")
      BY <1>0, <3>3, Beginnings
    <3> QED
      BY <1>5, <3>1, <3>2, <3>3
  <2>2. UNCHANGED <<blob, upload, object, gc, orphaned, faults>>
    BY <1>5 DEF BeginPut, BeginDeleteManifest, BeginDeleteTag, tables
  <2>3. {"check", "untag", "tags"} \subseteq Putting \cup Untagging
    BY DEF Putting, Untagging
  <2> QED
    BY <2>1, <2>2, <2>3
<1>6. ASSUME NEW u \in Upload, CancelElsewhere(h, u)
      PROVE  /\ UNCHANGED <<blob, object, gc, faults>> /\ orphaned' = orphaned \cup {upload[u].o}
             /\ Others(h) /\ req[h] = NoRequest /\ req'[h] = NoRequest
             /\ upload'[u].o = 0 /\ \A v \in Upload : v # u => upload'[v].o = upload[v].o
  <2>1. Stayed(h) /\ req[h] = NoRequest
    BY <1>0, <1>6, Beginnings
  <2> QED
    BY <1>0, <1>6, <2>1 DEF CancelElsewhere, NoSession, Stayed
<1> QED
  BY <1>1, <1>2, <1>3, <1>4, <1>5, <1>6 DEF Request

LEMMA ManifestEffects ==
  ASSUME IType, NEW h \in Handler, ManifestStep(h), ~DeleteBlobRow(h)
  PROVE  /\ UNCHANGED <<blob, upload, object, gc, orphaned, faults>> /\ Others(h)
         /\ req[h].o = 0 /\ req'[h].o = 0 /\ req[h].at \notin Holding /\ req'[h].at \notin Holding
<1>0. Requests /\ RequestOK(req[h])
  BY DEF IType, Requests
<1>1. UNCHANGED <<blob, upload, object, gc, orphaned, faults>>
  BY DEF ManifestStep, CheckReference, InsertManifest, UpsertTag, ListTags, Untag, ReapManifest, FindOtherTags,
         DeleteUntagged, tables
<1>2. /\ req[h].at \in Putting \cup Untagging /\ Others(h) /\ Requests' /\ (req'[h].o = 0 \/ req'[h].o = req[h].o)
  BY <1>0, TagSteps DEF ManifestStep, Ended, Went, Struck, Putting, Untagging
<1>3. (Putting \cup Untagging) \cap Holding = {}
  BY DEF Putting, Untagging, Holding, Making, OfSession, Filling, Checked, Removing
<1>4. RequestOK(req'[h])
  BY <1>2 DEF Requests
<1> QED
  BY <1>0, <1>1, <1>2, <1>3, <1>4 DEF RequestOK

-----------------------------------------------------------------------------
(* The bytes and their rows.                                                *)

Row(o) == \E d \in Digest : blob[d] = o
Session(o) == \E u \in Upload : upload[u].o = o
With(o, ats) == \E h \in Handler : req[h].o = o /\ req[h].at \in ats

\* What others than h have to do with.
Around(h) == {req[k].o : k \in Handler \ {h}} \cup {upload[u].o : u \in Upload}
             \cup {blob[d] : d \in Digest} \cup GcObjects

Sole == \A h \in Handler : req[h].at \in Making => req[h].o \notin Around(h)

\* Who sees to it that an object has a row or goes, session or not.
Claimed(o) == Row(o) \/ With(o, {"unlink"}) \/ o \in orphaned
Kept(o) == Claimed(o) \/ Session(o) \/ With(o, Making)

OInv ==
  /\ \A o \in 1 .. Len(object) : Exists(o) => Kept(o)
  /\ \A h \in Handler : req[h].at = "drop" /\ Exists(req[h].o) => Claimed(req[h].o)
  /\ gc.hand # Nothing => ~Exists(gc.hand.o)

\* A step keeps the objects of those that make one to themselves.
LEMMA SoleFrame ==
  ASSUME IType, Sole,
         \A h \in Handler : req'[h].at \in Making =>
           /\ req[h].at \in Making /\ req'[h].o = req[h].o
           /\ Around(h)' \subseteq Around(h) \cup {0}
  PROVE  Sole'
<1> SUFFICES ASSUME NEW h \in Handler, req'[h].at \in Making PROVE req'[h].o \notin Around(h)'
  BY DEF Sole
<1>1. req[h].o # 0
  BY DEF IType, Requests, RequestOK, Holding
<1> QED
  BY <1>1 DEF Sole

LEMMA SoleSteps ==
  ASSUME IType, Sole, NEW h \in Handler, Others(h), gc' = gc,
         req'[h].at \in Making => req[h].at \in Making /\ req'[h].o = req[h].o /\ UNCHANGED <<blob, upload>>,
         \A d \in Digest : blob'[d] \in {0, blob[d], req[h].o},
         \A u \in Upload : upload'[u].o \in {0, upload[u].o, req[h].o},
         \/ req'[h].o \in {0, req[h].o}
         \/ \E u \in Upload : req'[h].o = upload[u].o
         \/ \E d \in Digest : req'[h].o = blob[d]
  PROVE  Sole'
<1>1. GcObjects' = GcObjects
  BY DEF GcObjects
<1>2. Around(h)' = Around(h) \/ req'[h].at \notin Making
  BY <1>1 DEF Around, Others
<1>3. ASSUME NEW k \in Handler, k # h
      PROVE  Around(k)' \subseteq Around(k) \cup {0} /\ req'[k] = req[k]
  <2>1. req[h].o \in Around(k)
    BY <1>3 DEF Around
  <2>2. \A u \in Upload : upload'[u].o \in Around(k) \cup {0}
    BY <2>1 DEF Around
  <2>3. \A d \in Digest : blob'[d] \in Around(k) \cup {0}
    BY <2>1 DEF Around
  <2>4. req'[h].o \in Around(k) \cup {0}
    BY <2>1 DEF Around
  <2>5. \A j \in Handler \ {k} : req'[j].o \in Around(k) \cup {0}
    <3> SUFFICES ASSUME NEW j \in Handler, j # k PROVE req'[j].o \in Around(k) \cup {0}
      OBVIOUS
    <3>1. CASE j = h
      BY <2>4, <3>1
    <3>2. CASE j # h
      BY <3>2 DEF Around, Others
    <3> QED
      BY <3>1, <3>2
  <2>6. GcObjects' \subseteq Around(k) \cup {0}
    BY <1>1 DEF Around
  <2>7. Around(k)' \subseteq Around(k) \cup {0}
    BY <2>2, <2>3, <2>5, <2>6 DEF Around
  <2> QED
    BY <1>3, <2>7 DEF Others
<1>4. \A k \in Handler : req'[k].at \in Making =>
        /\ req[k].at \in Making /\ req'[k].o = req[k].o
        /\ Around(k)' \subseteq Around(k) \cup {0}
  BY <1>2, <1>3
<1> QED
  BY <1>4, SoleFrame

\* What the collector, the time that passes and crashes do to them.
LEMMA OtherEffects ==
  ASSUME IType,
         \/ (\E u \in Upload : Expire(u)) \/ GcStep \/ CrashGc \/ GcFails \/ UNCHANGED vars
         \/ CrashApi \/ \E h \in Handler : Fails(h)
  PROVE  \/ UNCHANGED <<blob, object, req, gc, orphaned, faults>> /\ SameSessions
         \/ /\ UNCHANGED <<blob, upload, object, req, orphaned, faults>> /\ gc.hand = Nothing
            /\ GcOK(gc') /\ gc'.hand = Nothing
            /\ \/ gc'.at = "uploads" /\ \A x \in gc'.todo : x.key \in Upload /\ x.o = upload[x.key].o /\ x.o # 0
               \/ gc'.at = "blobs" /\ \A x \in gc'.todo : x.key \in Digest /\ x.o = blob[x.key] /\ x.o # 0
               \/ gc'.at \in {"idle", "manifests"}
         \/ /\ UNCHANGED <<blob, upload, req, orphaned, faults>> /\ gc.hand = Nothing /\ gc'.at = gc.at
            /\ \E x \in gc.todo :
                 \/ gc.at \in {"uploads", "blobs"} /\ Wrote(x.o, Absent) /\ gc'.todo = gc.todo /\ gc'.hand = x
                 \/ object' = object /\ gc'.todo \subseteq gc.todo /\ gc'.hand = Nothing
         \/ /\ UNCHANGED <<blob, object, req, orphaned, faults>> /\ gc'.at = gc.at /\ gc.at = "uploads"
            /\ gc'.hand = Nothing /\ gc'.todo = gc.todo \ {gc.hand} /\ gc.hand \in gc.todo
            /\ \A v \in Upload :
                 upload'[v].o = IF v = gc.hand.key /\ upload[v].o = gc.hand.o THEN 0 ELSE upload[v].o
         \/ /\ UNCHANGED <<upload, object, req, faults>> /\ gc'.at = gc.at /\ gc.at = "blobs"
            /\ gc'.hand = Nothing /\ gc'.todo = gc.todo \ {gc.hand} /\ gc.hand \in gc.todo
            /\ gc.hand.key \in Digest /\ blob' = [blob EXCEPT ![gc.hand.key] = 0]
            /\ orphaned' = orphaned \cup ({blob[gc.hand.key]} \ {0, gc.hand.o})
         \/ /\ UNCHANGED <<blob, upload, object, gc>> /\ orphaned \subseteq orphaned' /\ faults' = faults + 1
            /\ \A k \in Handler :
                 req'[k] = req[k] \/ (req'[k] = NoRequest /\ Loses(k) \subseteq orphaned')
         \/ /\ UNCHANGED <<blob, upload, object, req, orphaned>> /\ gc'.at \in {gc.at, "idle"}
            /\ gc'.hand = Nothing /\ gc'.todo \subseteq gc.todo /\ faults' = faults + 1
<1>0. /\ Tables /\ GcOK(gc) /\ object \in Seq(Content) /\ Absent \in Content /\ Len(object) \in Nat
      /\ upload \in [Upload -> SessionType]
  BY DEF IType, Tables, Content
<1>1. CASE \E u \in Upload : Expire(u)
  <2>1. PICK u \in Upload : upload' = [upload EXCEPT ![u].expired = TRUE]
    BY <1>1 DEF Expire
  <2>2. SameSessions
    BY <1>0, <2>1 DEF SessionType, SameSessions
  <2> QED
    BY <1>1, <2>2 DEF Expire
<1>2. CASE GcListUploads
  <2>1. /\ GcOK(gc') /\ gc'.at = "uploads" /\ gc'.hand = Nothing
        /\ \A x \in gc'.todo : x.key \in Upload /\ x.o = upload[x.key].o /\ x \in UploadItem
    BY <1>2, Lists, Stages DEF GcListUploads
  <2>2. gc.hand = Nothing
    BY <1>0, <1>2 DEF GcListUploads, GcOK
  <2> QED
    BY <1>2, <2>1, <2>2 DEF GcListUploads, tables, UploadItem
<1>3. CASE GcListManifests
  <2>1. GcOK(gc') /\ gc'.at = "manifests" /\ gc'.hand = Nothing
    BY <1>0, <1>3, Stages DEF GcListManifests, OrphanManifests, Tables
  <2>2. gc.hand = Nothing
    BY <1>0, <1>3 DEF GcListManifests, GcOK
  <2> QED
    BY <1>3, <2>1, <2>2 DEF GcListManifests, tables
<1>4. CASE GcListBlobs
  <2>1. /\ GcOK(gc') /\ gc'.at = "blobs" /\ gc'.hand = Nothing
        /\ \A x \in gc'.todo : x.key \in Digest /\ x.o = blob[x.key] /\ x \in BlobItem
    BY <1>4, Lists, Stages DEF GcListBlobs, OrphanBlobs
  <2>2. gc.hand = Nothing
    BY <1>0, <1>4 DEF GcListBlobs, GcOK
  <2> QED
    BY <1>4, <2>1, <2>2 DEF GcListBlobs, tables, BlobItem
<1>5. CASE GcEnd
  <2>1. gc.hand = Nothing
    BY <1>0, <1>5 DEF GcEnd, GcOK
  <2> QED
    BY <1>5, <2>1, Rests DEF GcEnd, tables
<1>6. ASSUME NEW x \in gc.todo, GcUnlink(x)
      PROVE  /\ UNCHANGED <<blob, upload, req, orphaned, faults>> /\ gc.hand = Nothing /\ gc'.at = gc.at
             /\ \/ gc.at \in {"uploads", "blobs"} /\ Wrote(x.o, Absent) /\ gc'.todo = gc.todo /\ gc'.hand = x
                \/ object' = object /\ gc'.todo \subseteq gc.todo /\ gc'.hand = Nothing
  <2>1. x.o \in 1 .. Len(object) /\ gc.at \in {"uploads", "blobs"} /\ gc.hand = Nothing
    BY <1>0, <1>6 DEF GcUnlink, GcOK, GcObjects, UploadItem, BlobItem, IType, Created
  <2>2. CASE Exists(x.o)
    <3>1. Wrote(x.o, Absent)
      BY <1>0, <1>6, <2>1, <2>2, Writes DEF GcUnlink, Unlinked, Wrote
    <3> QED
      BY <1>0, <1>6, <2>1, <2>2, <3>1, Takes DEF GcUnlink, tables
  <2>3. CASE ~Exists(x.o)
    BY <1>0, <1>6, <2>1, <2>3, Drops DEF GcUnlink, tables
  <2> QED
    BY <2>2, <2>3
<1>7. ASSUME NEW x \in gc.todo, GcDeleteUpload(x)
      PROVE  /\ UNCHANGED <<blob, object, req, orphaned, faults>> /\ gc'.at = gc.at /\ gc.at = "uploads"
             /\ gc'.hand = Nothing /\ gc'.todo = gc.todo \ {gc.hand} /\ gc.hand \in gc.todo
             /\ \A v \in Upload :
                  upload'[v].o = IF v = gc.hand.key /\ upload[v].o = gc.hand.o THEN 0 ELSE upload[v].o
  <2>1. gc.hand = x /\ gc.at = "uploads" /\ x.key \in Upload
    BY <1>0, <1>7 DEF GcDeleteUpload, GcOK, UploadItem
  <2>2. upload' = [upload EXCEPT ![x.key] = IF upload[x.key].o = x.o THEN NoSession ELSE upload[x.key]]
    BY <1>7 DEF GcDeleteUpload
  <2>3. NoSession.o = 0
    BY DEF NoSession
  <2>4. \A v \in Upload : upload'[v].o = IF v = x.key /\ upload[v].o = x.o THEN 0 ELSE upload[v].o
    BY <1>0, <2>1, <2>2, <2>3
  <2> QED
    BY <1>0, <1>7, <2>1, <2>4, Drops DEF GcDeleteUpload
<1>8. ASSUME NEW m \in gc.todo, GcDeleteManifest(m)
      PROVE  /\ UNCHANGED <<blob, upload, req, orphaned, faults>> /\ gc.hand = Nothing /\ gc'.at = gc.at
             /\ object' = object /\ gc'.todo \subseteq gc.todo /\ gc'.hand = Nothing
  <2>1. gc.hand = Nothing
    BY <1>0, <1>8 DEF GcDeleteManifest, GcOK
  <2> QED
    BY <1>0, <1>8, <2>1, Drops DEF GcDeleteManifest
<1>9. ASSUME NEW x \in gc.todo, GcDeleteBlob(x)
      PROVE  /\ UNCHANGED <<upload, object, req, faults>> /\ gc'.at = gc.at /\ gc.at = "blobs"
             /\ gc'.hand = Nothing /\ gc'.todo = gc.todo \ {gc.hand} /\ gc.hand \in gc.todo
             /\ gc.hand.key \in Digest /\ blob' = [blob EXCEPT ![gc.hand.key] = 0]
             /\ orphaned' = orphaned \cup ({blob[gc.hand.key]} \ {0, gc.hand.o})
  BY <1>0, <1>9, Drops DEF GcDeleteBlob, GcOK, BlobItem
<1>10. CASE CrashApi
  <2>1. faults' = faults + 1
    BY <1>10 DEF CrashApi, Fault
  <2> QED
    BY <1>10, <2>1 DEF CrashApi, tables
<1>11. CASE CrashGc \/ GcFails
  <2>1. UNCHANGED <<blob, upload, object, req, orphaned>> /\ faults' = faults + 1
    BY <1>11 DEF CrashGc, GcFails, Fault, tables
  <2>2. gc'.at \in {gc.at, "idle"} /\ gc'.hand = Nothing /\ gc'.todo \subseteq gc.todo
    BY <1>0, <1>11, Rests, Drops DEF CrashGc, GcFails
  <2> QED
    BY <2>1, <2>2
<1>14. CASE \E h \in Handler : Fails(h)
  <2>1. PICK h \in Handler : Fails(h)
    BY <1>14
  <2>2. UNCHANGED <<blob, upload, object, gc>> /\ orphaned' = orphaned \cup Loses(h) /\ faults' = faults + 1
    BY <2>1 DEF Fails, Fault, tables
  <2>3. Requests /\ End(h)
    BY <2>1 DEF Fails, IType
  <2>4. Ended(h)
    BY <2>3, Ends
  <2> QED
    BY <2>2, <2>4 DEF Ended, Others
<1>12. CASE UNCHANGED vars
  BY <1>12 DEF vars, SameSessions
<1>13. GcStep => \/ GcListUploads \/ GcListManifests \/ GcListBlobs \/ GcEnd
                 \/ \E x \in gc.todo : GcUnlink(x)
                 \/ \E x \in gc.todo : GcDeleteUpload(x)
                 \/ \E x \in gc.todo : GcDeleteManifest(x)
                 \/ \E x \in gc.todo : GcDeleteBlob(x)
  BY DEF GcStep
<1> QED
  BY <1>1, <1>2, <1>3, <1>4, <1>5, <1>6, <1>7, <1>8, <1>9, <1>10, <1>11, <1>12, <1>13, <1>14

LEMMA SoleKept ==
  ASSUME IType, Sole, [Next]_vars
  PROVE  Sole'
<1>0. /\ Requests /\ Tables /\ Len(object) \in Nat /\ \A h \in Handler : RequestOK(req[h])
      /\ \A h \in Handler : req[h].o \in 0 .. Len(object)
      /\ \A u \in Upload : upload[u].o \in 0 .. Len(object)
      /\ \A d \in Digest : blob[d] \in 0 .. Len(object)
      /\ \A o \in GcObjects : o \in Nat /\ o <= Len(object)
  BY DEF IType, Tables, Requests, RequestType, Created, SessionType, GcOK, GcObjects, UploadItem,
     BlobItem
<1>M. /\ {"session", "body", "row"} = Making /\ None \notin Making
      /\ {"write", "final", "verify", "received", "exists", "insert", "reuse", "drop", "unlink", "deleteRow"}
           \cap Making = {}
      /\ Filling \cap Making = {} /\ (Putting \cup Untagging) \cap Making = {} /\ Making \subseteq Holding
  BY DEF Making, None, Filling, Putting, Untagging, Holding
<1>1. ASSUME NEW h \in Handler, UploadStep(h) \/ DeleteBlobRow(h) PROVE Sole'
  <2>1. Others(h) /\ req'[h].o \in {0, req[h].o} /\ gc' = gc
    BY <1>0, <1>1, Steps, Effects DEF UploadStep, Ended, Went, Stayed
  <2>2. req'[h].at \in Making => req[h].at \in Making /\ req'[h].o = req[h].o /\ UNCHANGED <<blob, upload>>
    <3>1. CASE WriteMonolithic(h)
      BY <1>0, <1>M, <3>1, Steps, Effects DEF Ended, Went
    <3>2. CASE ~WriteMonolithic(h)
      BY <1>0, <1>1, <1>M, <3>2, Steps DEF UploadStep, Ended, Went, Stayed
    <3> QED
      BY <3>1, <3>2
  <2>3. \A d \in Digest : blob'[d] \in {0, blob[d], req[h].o}
    <3>1. CASE InsertMonolithic(h) \/ CommitBlob(h)
      BY <3>1, Effects DEF Inserted
    <3>2. CASE DeleteBlobRow(h)
      BY <1>0, <3>2, Effects DEF Tables
    <3>3. CASE UploadStep(h) /\ ~InsertMonolithic(h) /\ ~CommitBlob(h)
      BY <3>3, Effects DEF UploadStep
    <3> QED
      BY <1>1, <3>1, <3>2, <3>3
  <2>4. \A u \in Upload : upload'[u].o \in {0, upload[u].o, req[h].o}
    BY <1>1, Effects DEF UploadStep, SameSessions
  <2> QED
    BY <2>1, <2>2, <2>3, <2>4, SoleSteps
<1>2. ASSUME NEW h \in Handler, ManifestStep(h), ~DeleteBlobRow(h) PROVE Sole'
  BY <1>2, <1>M, ManifestEffects, SoleSteps
<1>3. ASSUME NEW h \in Handler, Request(h) PROVE Sole'
  <2>0. UNCHANGED <<blob, gc>>
    BY <1>3, RequestEffects
  <2>1. CASE /\ Began(h, "session") \/ Began(h, "body")
             /\ req'[h].o = Len(object) + 1 /\ upload' = upload
    <3>1. Others(h) /\ GcObjects' = GcObjects
      BY <2>0, <2>1 DEF Began, GcObjects
    <3>2. Around(h)' = Around(h)
      BY <2>0, <2>1, <3>1 DEF Around, Others
    <3>3. req'[h].o \notin Around(h)'
      BY <1>0, <2>1, <3>2 DEF Around
    <3>4. \A k \in Handler : k # h => Around(k)' \subseteq Around(k) \cup {Len(object) + 1}
      BY <2>0, <2>1, <3>1 DEF Around, Others
    <3>5. \A k \in Handler : req[k].o # Len(object) + 1
      BY <1>0
    <3> QED
      BY <3>1, <3>3, <3>4, <3>5 DEF Sole, Others
  <2>2. CASE /\ UNCHANGED upload /\ Began(h, "deleteRow")
             /\ \E d \in Digest : req'[h].o = blob[d]
    BY <1>M, <2>0, <2>2, SoleSteps DEF Began
  <2>3. CASE /\ UNCHANGED upload /\ \E at \in Filling : Began(h, at)
             /\ \E u \in Upload : req'[h].o = upload[u].o
    BY <1>M, <2>0, <2>3, SoleSteps DEF Began
  <2>4. CASE /\ Began(h, "unlink")
             /\ \E u \in Upload : /\ req'[h].o = upload[u].o /\ upload'[u].o = 0
                                  /\ \A v \in Upload : v # u => upload'[v].o = upload[v].o
    BY <1>M, <2>0, <2>4, SoleSteps DEF Began
  <2>5. CASE /\ UNCHANGED upload /\ req'[h].o = 0
             /\ \E at \in Putting \cup Untagging : Began(h, at)
    BY <1>M, <2>0, <2>5, SoleSteps DEF Began
  <2>6. CASE /\ Others(h) /\ req[h] = NoRequest /\ req'[h] = NoRequest
             /\ \E u \in Upload : upload'[u].o = 0 /\ \A v \in Upload : v # u => upload'[v].o = upload[v].o
    BY <1>M, <2>0, <2>6, Idle, SoleSteps
  <2> QED
    BY <1>3, <2>1, <2>2, <2>3, <2>4, <2>5, <2>6, RequestEffects
<1>4. CASE \/ (\E u \in Upload : Expire(u)) \/ GcStep \/ CrashGc \/ GcFails \/ UNCHANGED vars
           \/ CrashApi \/ \E h \in Handler : Fails(h)
  <2>1. CASE /\ UNCHANGED <<blob, upload, gc>>
             /\ \A k \in Handler : req'[k] = req[k] \/ req'[k] = NoRequest
    <3>1. \A h \in Handler : Around(h)' \subseteq Around(h) \cup {0}
      BY <2>1, Idle DEF Around, GcObjects
    <3>2. \A h \in Handler : req'[h].at \in Making => req'[h] = req[h]
      BY <1>M, <2>1, Idle
    <3> QED
      BY <3>1, <3>2, SoleFrame
  <2>2. CASE UNCHANGED req
    <3>1. \A d \in Digest : blob'[d] \in {0, blob[d]}
      BY <1>0, <1>4, <2>2, OtherEffects DEF Tables
    <3>2. \A u \in Upload : upload'[u].o \in {0, upload[u].o}
      BY <1>4, <2>2, OtherEffects DEF SameSessions
    <3>3. \A o \in GcObjects' :
            o \in GcObjects \/ (\E u \in Upload : o = upload[u].o) \/ \E d \in Digest : o = blob[d]
      BY <1>4, <2>2, OtherEffects DEF GcObjects
    <3>4. \A h \in Handler : Around(h)' \subseteq Around(h) \cup {0}
      BY <2>2, <3>1, <3>2, <3>3 DEF Around
    <3> QED
      BY <2>2, <3>4, SoleFrame
  <2> QED
    BY <1>4, <2>1, <2>2, OtherEffects
<1> QED
  BY <1>1, <1>2, <1>3, <1>4 DEF Next, Step, ManifestStep

\* What a step must do to leave no bytes without a row.
LEMMA OwnedFrame ==
  ASSUME IType, Sole, OInv,
         \A o \in 1 .. Len(object') : o \in 1 .. Len(object) \/ Kept(o)',
         \A o \in 1 .. Len(object) :
           object'[o] # Absent =>
             /\ Exists(o) \/ With(o, Making)
             /\ Claimed(o) => Claimed(o)'
             /\ Session(o) \/ With(o, Making) => Kept(o)',
         \A h \in Handler : req'[h].at = "drop" =>
           req'[h] = req[h] \/ \E o : o = req'[h].o /\ (object'[o] = Absent \/ Claimed(o)'),
         gc'.hand \in {gc.hand, Nothing} \/ object'[gc'.hand.o] = Absent
  PROVE  OInv'
<1>1. \A o \in 1 .. Len(object') : Exists(o)' => Kept(o)'
  <2> SUFFICES ASSUME NEW o \in 1 .. Len(object), object'[o] # Absent PROVE Kept(o)'
    BY DEF Exists
  <2>1. Exists(o) => Kept(o)
    BY DEF OInv
  <2>2. Claimed(o)' => Kept(o)'
    BY DEF Kept
  <2> QED
    BY <2>1, <2>2 DEF Kept
<1>2. ASSUME NEW h \in Handler, req'[h].at = "drop", NEW o, o = req'[h].o, object'[o] # Absent
      PROVE  Claimed(o)'
  <2>1. CASE req'[h] = req[h]
    <3>1. "drop" \in Holding /\ "drop" \notin Making
      BY DEF Holding, OfSession, Making
    <3>2. o \in 1 .. Len(object)
      BY <1>2, <2>1, <3>1, Holds
    <3>3. ~With(o, Making)
      BY <1>2, <2>1, <3>1 DEF With, Sole, Around
    <3>4. Exists(o)
      BY <1>2, <3>2, <3>3
    <3>5. Claimed(o)
      BY <1>2, <2>1, <3>4 DEF OInv
    <3> QED
      BY <1>2, <3>2, <3>5
  <2>2. CASE req'[h] # req[h]
    BY <1>2, <2>2
  <2> QED
    BY <2>1, <2>2
<1>4. \A h \in Handler : (req[h].at = "drop" /\ Exists(req[h].o) => Claimed(req[h].o))'
  <2> SUFFICES ASSUME NEW h \in Handler, req'[h].at = "drop", object'[req'[h].o] # Absent
               PROVE  Claimed(req[h].o)'
    BY DEF Exists
  <2>1. PICK o : o = req'[h].o
    OBVIOUS
  <2>2. Claimed(o)'
    BY <1>2, <2>1
  <2> QED
    BY <2>1, <2>2 DEF Claimed, Row, With
<1>5. gc'.hand # Nothing => object'[gc'.hand.o] = Absent
  <2> SUFFICES ASSUME gc'.hand # Nothing, gc'.hand = gc.hand PROVE object'[gc.hand.o] = Absent
    OBVIOUS
  <2>1. gc.hand.o \in GcObjects /\ gc.hand.o \in 1 .. Len(object)
    <3>1. gc.hand \in gc.todo /\ gc.at \in {"uploads", "blobs"} /\ gc.hand.o \in Nat \ {0}
      BY DEF IType, GcOK, UploadItem, BlobItem
    <3>2. gc.hand.o \in GcObjects
      BY <3>1 DEF GcObjects
    <3>3. gc.hand.o <= Len(object) /\ Len(object) \in Nat
      BY <3>2 DEF IType, Created, Tables
    <3> QED
      BY <3>1, <3>2, <3>3
  <2>2. ~With(gc.hand.o, Making)
    BY <2>1 DEF With, Sole, Around
  <2>3. ~Exists(gc.hand.o)
    BY DEF OInv
  <2> QED
    BY <2>1, <2>2, <2>3
<1> QED
  BY <1>1, <1>4, <1>5 DEF OInv, Exists

\* A step of one request.
LEMMA OwnedSteps ==
  ASSUME IType, Sole, OInv, NEW h \in Handler, NEW o, o = req[h].o, Others(h), gc' = gc,
         Len(object') = Len(object),
         orphaned \subseteq orphaned',
         \A d \in Digest : \/ blob[d] = 0 \/ blob'[d] = blob[d] \/ blob[d] \in orphaned'
                           \/ req'[h].o = blob[d] /\ req'[h].at = "unlink",
         \A u \in Upload : \/ upload[u].o = 0 \/ upload'[u].o = upload[u].o \/ upload[u].o \in orphaned'
                           \/ req'[h].o = upload[u].o /\ req'[h].at = "unlink"
                           \/ upload[u].o = o /\ (object'[o] = Absent \/ Claimed(o)'),
         \A p \in 1 .. Len(object) : object'[p] # Absent => Exists(p) \/ (p = o /\ req[h].at \in Making),
         req[h].at = "unlink" => object'[o] = Absent,
         req[h].at \in Making => \/ req'[h].o = o /\ req'[h].at \in Making
                                 \/ object'[o] = Absent \/ Kept(o)',
         req'[h].at = "drop" => req'[h].o = o /\ (object'[o] = Absent \/ Claimed(o)')
  PROVE  OInv'
<1>1. ASSUME NEW p \in 1 .. Len(object), object'[p] # Absent PROVE Exists(p) \/ With(p, Making)
  BY <1>1 DEF With
<1>2. ASSUME NEW p \in 1 .. Len(object), object'[p] # Absent, Claimed(p) PROVE Claimed(p)'
  <2>1. CASE Row(p)
    BY <2>1 DEF Claimed, Row, With
  <2>2. CASE With(p, {"unlink"})
    <3>1. PICK k \in Handler : req[k].o = p /\ req[k].at = "unlink"
      BY <2>2 DEF With
    <3>2. req'[k] = req[k]
      BY <1>2, <3>1 DEF Others
    <3> QED
      BY <3>1, <3>2 DEF Claimed, With
  <2>3. CASE p \in orphaned
    BY <2>3 DEF Claimed
  <2> QED
    BY <1>2, <2>1, <2>2, <2>3 DEF Claimed
<1>3. ASSUME NEW p \in 1 .. Len(object), object'[p] # Absent, Session(p) PROVE Kept(p)'
  <2>1. PICK u \in Upload : upload[u].o = p
    BY <1>3 DEF Session
  <2>2. CASE upload'[u].o = upload[u].o
    BY <2>1, <2>2 DEF Kept, Session
  <2>3. CASE req'[h].o = p /\ req'[h].at = "unlink"
    BY <2>3 DEF Kept, Claimed, With
  <2>4. CASE o = p /\ Claimed(o)'
    BY <2>4 DEF Kept
  <2>5. CASE p \in orphaned'
    BY <2>5 DEF Kept, Claimed
  <2> QED
    BY <1>3, <2>1, <2>2, <2>3, <2>4, <2>5
<1>4. ASSUME NEW p \in 1 .. Len(object), object'[p] # Absent, With(p, Making) PROVE Kept(p)'
  <2>1. PICK k \in Handler : req[k].o = p /\ req[k].at \in Making
    BY <1>4 DEF With
  <2>2. CASE p = o /\ Kept(o)'
    BY <2>2
  <2>3. CASE req'[k].o = p /\ req'[k].at \in Making
    BY <2>3 DEF Kept, With
  <2> QED
    BY <1>4, <2>1, <2>2, <2>3 DEF Others
<1>5. \A k \in Handler : req'[k].at = "drop" =>
        req'[k] = req[k] \/ \E p : p = req'[k].o /\ (object'[p] = Absent \/ Claimed(p)')
  BY DEF Others
<1>6. \A p \in 1 .. Len(object) :
        object'[p] # Absent =>
          /\ Exists(p) \/ With(p, Making)
          /\ Claimed(p) => Claimed(p)'
          /\ Session(p) \/ With(p, Making) => Kept(p)'
  BY <1>1, <1>2, <1>3, <1>4
<1> QED
  BY <1>5, <1>6, OwnedFrame

LEMMA OwnedUploads ==
  ASSUME IType, Sole, OInv, NEW h \in Handler, UploadStep(h) \/ DeleteBlobRow(h)
  PROVE  OInv'
<1>0. /\ Requests /\ Tables /\ RequestOK(req[h]) /\ blob \in [Digest -> Nat]
      /\ (req[h].at \in Holding => req[h].o \in 1 .. Len(object))
  BY Holds DEF IType, Tables, Requests
<1>M. /\ {"session", "body", "row"} = Making /\ Making \cap {"received", "exists", "insert", "reuse"} = {}
      /\ {"received", "verify"} \cap {"unlink", "drop"} = {}
      /\ {"unlink", "drop", "deleteRow", "write", "final", "empty", "verify", "exists", "insert", "reuse",
          "received"} \cap Making = {}
      /\ None \notin Making \cup {"unlink", "drop"}
      /\ {"session", "body", "row", "write", "final", "empty", "verify", "reuse", "unlink"} \subseteq Holding
  BY DEF Making, None, Holding, OfSession, Filling, Checked, Removing
<1>1. PICK o : o = req[h].o
  OBVIOUS
<1>2. Others(h) /\ gc' = gc
  BY <1>0, Steps, Effects DEF UploadStep, Ended, Went, Stayed
<1>3. CASE InsertSession(h)
  <2>1. Kept(o)'
    BY <1>1, <1>3, Effects DEF Kept, Session
  <2> QED
    BY <1>0, <1>M, <1>1, <1>2, <1>3, <2>1, Steps, Effects, OwnedSteps DEF Ended, Exists
<1>4. CASE WriteMonolithic(h)
  BY <1>0, <1>M, <1>1, <1>2, <1>4, Steps, Effects, OwnedSteps DEF Ended, Went, Exists, Wrote
<1>5. CASE InsertMonolithic(h)
  <2>1. req[h].d \in Digest
    BY <1>0, <1>5, Steps DEF RequestOK
  <2>2. Kept(o)'
    BY <1>1, <1>5, <2>1, Effects DEF Inserted, Kept, Claimed, Row
  <2> QED
    BY <1>0, <1>M, <1>1, <1>2, <1>5, <2>2, Steps, Effects, OwnedSteps DEF Ended, Exists, Inserted
<1>6. CASE WriteChunk(h)
  BY <1>0, <1>M, <1>1, <1>2, <1>6, Steps, Effects, OwnedSteps DEF Stayed, Exists, Wrote
<1>7. CASE EndBody(h) \/ UpdateReceived(h) \/ CheckExisting(h)
  BY <1>0, <1>M, <1>1, <1>2, <1>7, Steps, Effects, OwnedSteps DEF Ended, Went, Exists, SameSessions
<1>8. CASE Verify(h)
  BY <1>0, <1>M, <1>1, <1>2, <1>8, Steps, Effects, OwnedSteps DEF Ended, Went, Exists, Wrote
<1>9. CASE ReuseBlob(h)
  BY <1>0, <1>M, <1>1, <1>2, <1>9, Steps, Effects, OwnedSteps DEF Went, Exists, Wrote
<1>14. CASE Unlink(h)
  BY <1>0, <1>M, <1>1, <1>2, <1>14, Steps, Effects, OwnedSteps DEF Ended, Exists, Wrote
<1>10. CASE CommitBlob(h)
  <2>1. req[h].d \in Digest
    BY <1>0, <1>10, Steps DEF RequestOK, Completing, Checked
  <2>2. Claimed(o)'
    BY <1>1, <1>10, <2>1, Effects DEF Inserted, Claimed, Row
  <2> QED
    BY <1>0, <1>M, <1>1, <1>2, <1>10, <2>2, Steps, Effects, OwnedSteps DEF Went, Exists, Inserted
<1>11. CASE DropSession(h)
  <2>1. UNCHANGED <<blob, object, orphaned>> /\ req[h].at = "drop"
    BY <1>0, <1>11, Steps, Effects
  <2>2. object[o] # Absent => Claimed(o)
    BY <1>1, <2>1 DEF OInv, Exists
  <2>3. Claimed(o) => Claimed(o)'
    BY <1>2, <2>1 DEF Claimed, Row, With, Others
  <2> QED
    BY <1>0, <1>M, <1>1, <1>2, <1>11, <2>1, <2>2, <2>3, Steps, Effects, OwnedSteps DEF Ended, Exists
<1>12. CASE DeleteBlobRow(h)
  <2>1. \A d \in Digest : \/ blob[d] = 0 \/ blob'[d] = blob[d] \/ blob[d] \in orphaned'
                          \/ req'[h].o = blob[d] /\ req'[h].at = "unlink"
    BY <1>0, <1>12, Steps, Effects DEF Went
  <2> QED
    BY <1>0, <1>M, <1>1, <1>2, <1>12, <2>1, Steps, Effects, OwnedSteps DEF Went, Exists
<1>13. CASE UnlinkFails(h)
  <2>1. Claimed(o)'
    BY <1>1, <1>13, Effects DEF Claimed
  <2> QED
    BY <1>0, <1>M, <1>1, <1>2, <1>13, <2>1, Steps, Effects, OwnedSteps DEF Went, Exists
<1> QED
  BY <1>3, <1>4, <1>5, <1>6, <1>7, <1>8, <1>9, <1>10, <1>11, <1>12, <1>13, <1>14 DEF UploadStep

LEMMA OwnedRequests ==
  ASSUME IType, Sole, OInv, NEW h \in Handler, Request(h) \/ (ManifestStep(h) /\ ~DeleteBlobRow(h))
  PROVE  OInv'
<1>M. /\ None \notin Making \cup {"unlink", "drop"} /\ "unlink" \notin Making
      /\ {"drop", "deleteRow"} \cap Making = {}
      /\ (Putting \cup Untagging \cup Filling) \cap (Making \cup {"drop", "unlink"}) = {}
      /\ Making \cup {"drop", "unlink"} \subseteq Holding
      /\ {"session", "body"} \subseteq Making
  BY DEF Making, None, Holding, OfSession, Filling, Checked, Removing, Putting, Untagging
<1>1. PICK o : o = req[h].o
  OBVIOUS
<1>2. CASE ManifestStep(h) /\ ~DeleteBlobRow(h)
  BY <1>M, <1>1, <1>2, ManifestEffects, OwnedSteps DEF Exists
<1>3. CASE Request(h)
  <2>0. UNCHANGED <<blob, gc>> /\ orphaned \subseteq orphaned'
    BY <1>3, RequestEffects
  <2>1. CASE /\ Began(h, "session") \/ Began(h, "body")
             /\ req'[h].o = Len(object) + 1 /\ upload' = upload /\ Len(object') = Len(object) + 1
             /\ \A p \in 1 .. Len(object) : object'[p] = object[p]
    <3>0. Len(object) \in Nat
      BY DEF IType, Tables
    <3>1. Others(h) /\ req[h].at = None /\ req'[h].at \in Making
      BY <1>M, <2>1 DEF Began
    <3>2. \A p \in 1 .. Len(object') : p \in 1 .. Len(object) \/ Kept(p)'
      BY <2>1, <3>0, <3>1 DEF Kept, With
    <3>3. \A p : With(p, Making) => With(p, Making)'
      BY <1>M, <3>1 DEF With, Others
    <3>4. \A p : With(p, {"unlink"}) => With(p, {"unlink"})'
      BY <1>M, <3>1 DEF With, Others
    <3>5. \A p : (Claimed(p) => Claimed(p)') /\ (Session(p) => Session(p)')
      BY <2>0, <2>1, <3>4 DEF Claimed, Row, Session
    <3>6. \A p \in 1 .. Len(object) :
            object'[p] # Absent =>
              /\ Exists(p) \/ With(p, Making)
              /\ Claimed(p) => Claimed(p)'
              /\ Session(p) \/ With(p, Making) => Kept(p)'
      BY <2>1, <3>3, <3>5 DEF Exists, Kept
    <3>7. \A k \in Handler : req'[k].at = "drop" => req'[k] = req[k]
      BY <1>M, <3>1 DEF Others
    <3> QED
      BY <2>0, <3>2, <3>6, <3>7, OwnedFrame
  <2>2. CASE UNCHANGED <<upload, object>> /\ Began(h, "deleteRow")
    BY <1>M, <1>1, <2>0, <2>2, OwnedSteps DEF Began, Exists
  <2>3. CASE UNCHANGED <<upload, object>> /\ \E at \in Filling : Began(h, at)
    BY <1>M, <1>1, <2>0, <2>3, OwnedSteps DEF Began, Exists
  <2>4. CASE /\ object' = object /\ Began(h, "unlink")
             /\ \E u \in Upload : /\ req'[h].o = upload[u].o
                                  /\ \A v \in Upload : v # u => upload'[v].o = upload[v].o
    BY <1>M, <1>1, <2>0, <2>4, OwnedSteps DEF Began, Exists
  <2>5. CASE UNCHANGED <<upload, object>> /\ \E at \in Putting \cup Untagging : Began(h, at)
    BY <1>M, <1>1, <2>0, <2>5, OwnedSteps DEF Began, Exists
  <2>6. CASE /\ object' = object /\ Others(h) /\ req'[h] = NoRequest /\ req[h] = NoRequest
             /\ \E u \in Upload : /\ upload[u].o \in orphaned'
                                  /\ \A v \in Upload : v # u => upload'[v].o = upload[v].o
    BY <1>M, <1>1, <2>0, <2>6, Idle, OwnedSteps DEF Exists
  <2> QED
    BY <1>3, <2>1, <2>2, <2>3, <2>4, <2>5, <2>6, RequestEffects
<1> QED
  BY <1>2, <1>3

LEMMA OwnedOthers ==
  ASSUME IType, Sole, OInv,
         \/ (\E u \in Upload : Expire(u)) \/ GcStep \/ CrashGc \/ GcFails \/ UNCHANGED vars
         \/ CrashApi \/ \E h \in Handler : Fails(h)
  PROVE  OInv'
<1>0. /\ Tables /\ GcOK(gc) /\ Len(object) \in Nat
      /\ \A h \in Handler : RequestOK(req[h])
  BY DEF IType, Tables, Requests
<1>H. gc.hand \in gc.todo /\ gc.at \in {"uploads", "blobs"} => ~Exists(gc.hand.o)
  <2> SUFFICES ASSUME gc.hand \in gc.todo, gc.at \in {"uploads", "blobs"} PROVE ~Exists(gc.hand.o)
    OBVIOUS
  <2>1. gc.hand.o \in Nat \ {0}
    BY <1>0 DEF GcOK, UploadItem, BlobItem
  <2>2. gc.hand # Nothing
    BY <2>1 DEF Nothing
  <2> QED
    BY <2>2 DEF OInv
<1>F. ASSUME UNCHANGED req, Len(object') = Len(object), orphaned \subseteq orphaned',
             \A p \in 1 .. Len(object) : object'[p] # Absent => Exists(p),
             \A u \in Upload : \/ upload'[u].o = upload[u].o \/ upload[u].o = 0
                               \/ object'[upload[u].o] = Absent,
             \A d \in Digest : \/ blob'[d] = blob[d] \/ blob[d] = 0 \/ blob[d] \in orphaned'
                               \/ object'[blob[d]] = Absent,
             gc'.hand \in {gc.hand, Nothing} \/ object'[gc'.hand.o] = Absent
      PROVE  OInv'
  <2>1. \A p, ats : With(p, ats) => With(p, ats)'
    BY <1>F DEF With
  <2>2. ASSUME NEW p \in 1 .. Len(object), object'[p] # Absent, Claimed(p) PROVE Claimed(p)'
    <3>1. CASE Row(p)
      BY <1>F, <2>2, <3>1 DEF Claimed, Row
    <3>2. CASE ~Row(p)
      BY <1>F, <2>1, <2>2, <3>2 DEF Claimed
    <3> QED
      BY <3>1, <3>2
  <2>3. ASSUME NEW p \in 1 .. Len(object), object'[p] # Absent, Session(p) PROVE Session(p)'
    BY <1>F, <2>3 DEF Session
  <2>4. \A p \in 1 .. Len(object) :
          object'[p] # Absent =>
            /\ Exists(p) \/ With(p, Making)
            /\ Claimed(p) => Claimed(p)'
            /\ Session(p) \/ With(p, Making) => Kept(p)'
    BY <1>F, <2>1, <2>2, <2>3 DEF Kept
  <2> QED
    BY <1>F, <2>4, OwnedFrame
<1>1. CASE UNCHANGED <<blob, object, req, gc, orphaned, faults>> /\ SameSessions
  BY <1>1, <1>F DEF SameSessions, Exists
<1>2. CASE UNCHANGED <<blob, upload, object, req, orphaned>> /\ gc'.hand = Nothing
  BY <1>2, <1>F DEF Exists
<1>3. CASE /\ UNCHANGED <<blob, upload, req, orphaned, faults>>
           /\ \E x \in gc.todo : Wrote(x.o, Absent) /\ gc'.hand = x
  BY <1>3, <1>F DEF Exists, Wrote
<1>4. CASE /\ UNCHANGED <<blob, object, req, orphaned, faults>>
           /\ gc.at = "uploads" /\ gc'.hand = Nothing /\ gc.hand \in gc.todo
           /\ \A v \in Upload :
                upload'[v].o = IF v = gc.hand.key /\ upload[v].o = gc.hand.o THEN 0 ELSE upload[v].o
  BY <1>4, <1>F, <1>H DEF Exists
<1>5. CASE /\ UNCHANGED <<upload, object, req, faults>>
           /\ gc.at = "blobs" /\ gc'.hand = Nothing /\ gc.hand \in gc.todo
           /\ gc.hand.key \in Digest /\ blob' = [blob EXCEPT ![gc.hand.key] = 0]
           /\ orphaned' = orphaned \cup ({blob[gc.hand.key]} \ {0, gc.hand.o})
  <2>1. \A d \in Digest : \/ blob'[d] = blob[d] \/ blob[d] = 0 \/ blob[d] \in orphaned'
                          \/ object'[blob[d]] = Absent
    BY <1>0, <1>5, <1>H DEF Exists, Tables
  <2> QED
    BY <1>5, <1>F, <2>1 DEF Exists
<1>6. CASE /\ UNCHANGED <<blob, upload, object, gc>> /\ orphaned \subseteq orphaned'
           /\ \A k \in Handler :
                req'[k] = req[k] \/ (req'[k] = NoRequest /\ Loses(k) \subseteq orphaned')
  <2>1. \A h \in Handler : req[h].at \in Making \cup {"unlink"} => req[h].o \in Loses(h)
    BY DEF Loses, Making
  <2>2. \A p, ats : ats \subseteq Making \cup {"unlink"} /\ With(p, ats) => With(p, ats)' \/ p \in orphaned'
    BY <1>6, <2>1 DEF With
  <2>3. \A p : Claimed(p) => Claimed(p)'
    BY <1>6, <2>2 DEF Claimed, Row
  <2>4. \A p : Kept(p) => Kept(p)'
    BY <1>6, <2>2, <2>3 DEF Kept, Claimed, Session
  <2>5. \A h \in Handler : req'[h].at = "drop" => req'[h] = req[h]
    BY <1>6 DEF NoRequest, None
  <2>6. \A p \in 1 .. Len(object) :
          object'[p] # Absent =>
            /\ Exists(p) \/ With(p, Making)
            /\ Claimed(p) => Claimed(p)'
            /\ Session(p) \/ With(p, Making) => Kept(p)'
    BY <1>6, <2>3, <2>4 DEF Kept, Exists
  <2> QED
    BY <1>6, <2>5, <2>6, OwnedFrame
<1>7. CASE UNCHANGED <<blob, upload, req, orphaned>> /\ object' = object /\ gc'.hand = Nothing
  BY <1>7, <1>F DEF Exists
<1> QED
  BY <1>1, <1>2, <1>3, <1>4, <1>5, <1>6, <1>7, OtherEffects

\* No bytes without a row, a session or a request that knows them, unless another
\* upload had committed the digest first, a deletion by digest found a newer row, a
\* crash or a failing statement ended the request that knew them, the failure of an
\* unlink was swallowed, or the session was cancelled through another repository:
\* every other path of the uploads, of the deletions and of the collector that takes
\* a row away unlinks the object, or leaves it to one that will.
THEOREM BytesOwned == Spec => []ObjectsOwned
<1>1. Init => Sole /\ OInv
  <2> SUFFICES ASSUME Init PROVE Sole /\ OInv
    OBVIOUS
  <2>1. \A h \in Handler : req[h].at = None
    BY DEF Init, NoRequest
  <2>2. gc.hand = Nothing /\ Len(object) = 0
    BY Rests DEF Init
  <2>3. None \notin Making \cup {"drop"}
    BY DEF Making, None
  <2> QED
    BY <2>1, <2>2, <2>3 DEF Sole, OInv
<1>2. IType /\ Sole /\ OInv /\ [Next]_vars => Sole' /\ OInv'
  BY SoleKept, OwnedUploads, OwnedRequests, OwnedOthers DEF Next, Step, ManifestStep
<1>3. IType /\ OInv => ObjectsOwned
  <2> SUFFICES ASSUME IType, OInv, NEW o \in 1 .. Len(object), Exists(o)
               PROVE  \/ \E d \in Digest : blob[d] = o
                      \/ \E u \in Sessions : upload[u].o = o
                      \/ \E h \in Handler : o \in Loses(h)
                      \/ o \in orphaned
    BY DEF ObjectsOwned
  <2>1. Kept(o)
    BY DEF OInv
  <2>2. Session(o) => \E u \in Sessions : upload[u].o = o
    BY DEF Session, Sessions, NoSession
  <2>3. With(o, Making \cup {"unlink"}) => \E h \in Handler : o \in Loses(h)
    BY DEF With, Loses, Making
  <2> QED
    BY <2>1, <2>2, <2>3 DEF Kept, Claimed, Row, With
<1> QED
  BY <1>1, <1>2, <1>3, TypesInvariant, PTL DEF Spec

-----------------------------------------------------------------------------
(* The bytes of an object that one party works on at a time.                *)

\* One request has it in hand, or the collector lists it.
Lone(o) == /\ \A h, k \in Handler : req[h].o = o /\ req[k].o = o => h = k
           /\ o \in GcObjects => \A h \in Handler : req[h].o # o

\* One blob has it, or one session; both only until the request that moved it is over.
Single(o) ==
  /\ \A d, e \in Digest : blob[d] = o /\ blob[e] = o => d = e
  /\ \A u, v \in Upload : upload[u].o = o /\ upload[v].o = o => u = v
  /\ Row(o) /\ Session(o) => With(o, {"drop"})

\* The bytes are those of its digest, until the collector unlinks them.
Served(o) == \A d \in Digest : blob[d] = o => object[o] = d \/ gc.hand.o = o

\* What the request that has it in hand may take for granted.
Worked(h, o) ==
  req[h].o = o =>
    /\ req[h].at \in {"row"} \cup Checked => object[o] = req[h].d
    /\ req[h].at \in Filling \cup Checked \cup {"unlink"} => ~Row(o)
    /\ req[h].at \in OfSession => \A u \in Upload : upload[u].o = o => u = req[h].u
    /\ req[h].at \in Removing => ~Session(o)
    /\ req[h].at \in {"deleteRow", "drop"} => \A d \in Digest : blob[d] = o => d = req[h].d

\* And the collector.
Collected(o) ==
  \A x \in gc.todo : x.o = o =>
    /\ gc.at = "uploads" => ~Row(o)
    /\ gc.at = "blobs" => \A d \in Digest : blob[d] = o => d = x.key

Unshared(o) == Single(o) /\ Served(o) /\ (\A h \in Handler : Worked(h, o)) /\ Collected(o)

SInv == /\ \A o \in Nat \ {0} : o \notin shared => Lone(o) /\ Unshared(o)
        /\ faults \in Nat

\* A step that does not touch an object keeps that.
LEMMA Aside ==
  ASSUME IType, NEW o \in Nat \ {0}, Unshared(o),
         \A d \in Digest : blob'[d] = o => blob[d] = o,
         \A u \in Upload : upload'[u].o = o => upload[u].o = o,
         o \in 1 .. Len(object) => object'[o] = object[o],
         \A h \in Handler : req[h].o = o \/ req'[h].o = o => req'[h] = req[h],
         gc'.at \in {"uploads", "blobs"} =>
           \A x \in gc'.todo : x.o = o => x \in gc.todo /\ gc'.at = gc.at,
         gc.hand.o = o => gc'.hand.o = o
  PROVE  Unshared(o)'
<1>1. (Row(o)' => Row(o)) /\ (Session(o)' => Session(o)) /\ (With(o, {"drop"}) => With(o, {"drop"})')
  BY DEF Row, Session, With
<1>2. Row(o) \/ With(o, Holding) => o \in 1 .. Len(object)
  <2>1. Len(object) \in Nat /\ \A h \in Handler : req[h].o \in Nat /\ req[h].o <= Len(object)
    BY DEF IType, Tables, Requests, RequestType, Created
  <2>2. \A d \in Digest : blob[d] \in Nat /\ blob[d] <= Len(object)
    BY DEF IType, Tables, Created
  <2> QED
    BY <2>1, <2>2 DEF Row, With
<1>3. Single(o)'
  BY <1>1 DEF Unshared, Single
<1>4. Served(o)'
  BY <1>1, <1>2 DEF Unshared, Served, Row
<1>5. ASSUME NEW h \in Handler PROVE Worked(h, o)'
  <2>1. {"row"} \cup Checked \subseteq Holding
    BY DEF Holding, Making, OfSession
  <2> QED
    BY <1>1, <1>2, <2>1 DEF Unshared, Worked, With
<1>6. Collected(o)'
  BY <1>1 DEF Unshared, Collected
<1> QED
  BY <1>3, <1>4, <1>5, <1>6 DEF Unshared

\* A step of the only request that has it in hand.
LEMMA Alone ==
  ASSUME IType, NEW o \in Nat \ {0}, NEW h \in Handler, gc' = gc, o \notin GcObjects,
         \A k \in Handler : k # h => req'[k].o # o,
         Single(o)', Worked(h, o)', \A d \in Digest : blob'[d] = o => object'[o] = d
  PROVE  Unshared(o)'
<1>1. Collected(o)'
  BY DEF Collected, GcObjects
<1>2. \A k \in Handler : Worked(k, o)'
  BY DEF Worked
<1>3. Served(o)'
  BY DEF Served
<1> QED
  BY <1>1, <1>2, <1>3 DEF Unshared

\* The object in the collector's hand is one of its list.
LEMMA InHandListed ==
  ASSUME IType, gc.hand.o # 0
  PROVE  gc.hand.o \in GcObjects /\ gc.hand \in gc.todo
BY DEF IType, GcOK, GcObjects, Nothing

LEMMA UploadBytes ==
  ASSUME IType, Sole, NEW o \in Nat \ {0}, Lone(o), Unshared(o),
         NEW h \in Handler, UploadStep(h) \/ DeleteBlobRow(h)
  PROVE  Unshared(o)'
<1>0. /\ Requests /\ Tables /\ RequestOK(req[h]) /\ blob \in [Digest -> Nat]
      /\ (req[h].at \in Holding => req[h].o \in 1 .. Len(object))
  BY Holds DEF IType, Tables, Requests
<1>A. /\ Filling = {"write", "final", "received", "empty", "verify"} /\ Checked = {"exists", "insert", "reuse"}
      /\ OfSession = {"write", "final", "received", "empty", "verify", "exists", "insert", "reuse", "drop"}
      /\ Making = {"session", "body", "row"} /\ Removing = {"deleteRow", "unlink"}
      /\ None \notin Making \cup OfSession \cup Removing
  BY DEF Making, None, OfSession, Filling, Checked, Removing
<1>H. Making \cup OfSession \cup Removing = Holding
  BY DEF Holding
<1>1. Others(h) /\ gc' = gc /\ req'[h].o \in {0, req[h].o} /\ Len(object') = Len(object)
  BY <1>0, Steps, Effects DEF UploadStep, Ended, Went, Stayed, Wrote
<1>2. CASE req[h].o # o
  <2>1. \A d \in Digest : blob'[d] = o => blob[d] = o
    <3>1. CASE InsertMonolithic(h) \/ CommitBlob(h)
      BY <1>2, <3>1, Effects DEF Inserted
    <3>2. CASE DeleteBlobRow(h)
      BY <1>0, <3>2, Effects
    <3>3. CASE UploadStep(h) /\ ~InsertMonolithic(h) /\ ~CommitBlob(h)
      BY <3>3, Effects DEF UploadStep
    <3> QED
      BY <3>1, <3>2, <3>3
  <2>2. \A u \in Upload : upload'[u].o = o => upload[u].o = o
    BY <1>2, Effects DEF UploadStep, SameSessions
  <2>3. o \in 1 .. Len(object) => object'[o] = object[o]
    BY <1>2, Effects DEF UploadStep, Wrote
  <2>4. \A k \in Handler : req[k].o = o \/ req'[k].o = o => req'[k] = req[k]
    BY <1>1, <1>2 DEF Others
  <2> QED
    BY <1>1, <2>1, <2>2, <2>3, <2>4, Aside
<1>3. CASE req[h].o = o
  <2>1. o \notin GcObjects /\ gc.hand.o # o
    BY <1>3, InHandListed DEF Lone
  <2>2. \A k \in Handler : k # h => req'[k].o # o
    BY <1>1, <1>3 DEF Lone, Others
  <2>3. \A d \in Digest : blob[d] = o => object[o] = d
    BY <2>1 DEF Unshared, Served
  <2>4. Single(o) /\ Worked(h, o)
    BY DEF Unshared
  <2>5. req'[h].o = 0 => Worked(h, o)'
    BY DEF Worked
  <2>M. req[h].at \in Making => ~Row(o) /\ ~Session(o)
    BY <1>3 DEF Sole, Around, Row, Session
  <2>6. CASE InsertSession(h)
    <3>1. UNCHANGED <<blob, object>> /\ Ended(h) /\ ~Row(o) /\ ~Session(o)
      BY <1>0, <1>A, <2>6, <2>M, Steps, Effects
    <3>2. ~Row(o)'
      BY <3>1 DEF Row
    <3>3. Single(o)'
      BY <2>6, <3>1, <3>2, Effects DEF Single, Row, Session
    <3> QED
      BY <1>1, <2>1, <2>2, <2>5, <3>1, <3>2, <3>3, Alone DEF Ended, Row
  <2>7. CASE WriteMonolithic(h)
    <3>1. UNCHANGED <<blob, upload>> /\ ~Row(o) /\ ~Session(o)
      BY <1>0, <1>A, <2>7, <2>M, Steps, Effects
    <3>2. ~Row(o)' /\ ~Session(o)'
      BY <3>1 DEF Row, Session
    <3>3. Single(o)'
      BY <3>2 DEF Single, Row, Session
    <3>4. Worked(h, o)'
      BY <1>3, <1>A, <2>5, <2>7, <3>2, Effects DEF Worked, Went, Ended, Wrote
    <3> QED
      BY <1>1, <2>1, <2>2, <3>2, <3>3, <3>4, Alone DEF Row
  <2>8. CASE InsertMonolithic(h)
    <3>1. /\ UNCHANGED <<upload, object>> /\ Inserted(req[h].d, o) /\ Ended(h) /\ ~Row(o) /\ ~Session(o)
          /\ object[o] = req[h].d
      BY <1>0, <1>3, <1>A, <2>4, <2>8, <2>M, Steps, Effects DEF Worked
    <3>2. \A d \in Digest : blob'[d] = o => d = req[h].d
      BY <3>1 DEF Inserted, Row
    <3>3. ~Session(o)'
      BY <3>1 DEF Session
    <3>4. Single(o)'
      BY <3>2, <3>3 DEF Single, Session
    <3> QED
      BY <1>1, <2>1, <2>2, <2>5, <3>1, <3>2, <3>4, Alone DEF Ended
  <2>9. CASE \/ WriteChunk(h) \/ EndBody(h) \/ UpdateReceived(h) \/ Verify(h) \/ CheckExisting(h) \/ ReuseBlob(h)
             \/ UnlinkFails(h)
    <3>1. req[h].at \in Filling \cup Checked
      BY <1>0, <1>A, <2>9, Steps
    <3>2. ~Row(o) /\ \A u \in Upload : upload[u].o = o => u = req[h].u
      BY <1>3, <1>A, <2>4, <3>1 DEF Worked
    <3>3. blob' = blob /\ SameSessions
      BY <2>9, Effects DEF SameSessions
    <3>4. ~Row(o)' /\ \A u \in Upload : upload'[u].o = o => u = req[h].u
      BY <3>2, <3>3 DEF Row, SameSessions
    <3>5. Single(o)'
      BY <3>4 DEF Single, Row
    <3>6. Ended(h) \/ (/\ req'[h].u = req[h].u /\ req'[h].d = req[h].d
                       /\ \/ req'[h].at \in {"write", "final", "received", "verify", "drop"}
                          \/ req'[h].at = "exists" /\ object' = object /\ object[o] = req[h].d
                          \/ req'[h].at \in {"insert", "reuse"} /\ object' = object /\ req[h].at = "exists")
      <4>1. CASE WriteChunk(h)
        BY <1>0, <4>1, Steps DEF Stayed
      <4>2. CASE EndBody(h) \/ UpdateReceived(h) \/ ReuseBlob(h) \/ UnlinkFails(h)
        BY <1>0, <4>2, Steps DEF Went
      <4>3. CASE Verify(h)
        BY <1>3, <4>3, Effects DEF Went
      <4>4. CASE CheckExisting(h)
        BY <1>0, <4>4, Steps, Effects DEF Went
      <4> QED
        BY <2>9, <4>1, <4>2, <4>3, <4>4
    <3>7. Worked(h, o)'
      BY <1>3, <1>A, <2>4, <2>5, <3>4, <3>6 DEF Worked, Ended, Row
    <3> QED
      BY <1>1, <2>1, <2>2, <3>4, <3>5, <3>7, Alone DEF Row
  <2>10. CASE CommitBlob(h)
    <3>1. /\ UNCHANGED <<upload, object>> /\ Inserted(req[h].d, o) /\ Went(h, "drop") /\ ~Row(o)
          /\ object[o] = req[h].d /\ \A u \in Upload : upload[u].o = o => u = req[h].u
      BY <1>0, <1>3, <1>A, <2>4, <2>10, Steps, Effects DEF Worked
    <3>2. \A d \in Digest : blob'[d] = o => d = req[h].d
      BY <3>1 DEF Inserted, Row
    <3>3. Single(o)'
      BY <1>3, <2>4, <3>1, <3>2 DEF Single, With, Went
    <3>4. Worked(h, o)'
      BY <1>A, <3>1, <3>2 DEF Worked, Went
    <3> QED
      BY <1>1, <2>1, <2>2, <3>1, <3>2, <3>3, <3>4, Alone
  <2>11. CASE DropSession(h)
    <3>1. /\ UNCHANGED <<blob, object>> /\ Ended(h) /\ \A u \in Upload : upload[u].o = o => u = req[h].u
      BY <1>0, <1>3, <1>A, <2>4, <2>11, Steps, Effects DEF Worked
    <3>2. ~Session(o)'
      BY <1>3, <2>11, <3>1, Effects DEF Session
    <3>3. Single(o)'
      BY <2>4, <3>1, <3>2 DEF Single, Session
    <3> QED
      BY <1>1, <2>1, <2>2, <2>3, <2>5, <3>1, <3>3, Alone DEF Ended
  <2>12. CASE Unlink(h)
    <3>1. UNCHANGED <<blob, upload>> /\ Ended(h) /\ ~Row(o) /\ ~Session(o)
      BY <1>0, <1>3, <1>A, <2>4, <2>12, Steps, Effects DEF Worked
    <3>2. ~Row(o)' /\ ~Session(o)'
      BY <3>1 DEF Row, Session
    <3>3. Single(o)'
      BY <3>2 DEF Single, Row, Session
    <3> QED
      BY <1>1, <2>1, <2>2, <2>5, <3>1, <3>2, <3>3, Alone DEF Ended, Row
  <2>13. CASE DeleteBlobRow(h)
    <3>1. /\ UNCHANGED <<upload, object>> /\ Went(h, "unlink") /\ ~Session(o)
          /\ req[h].d \in Digest /\ blob' = [blob EXCEPT ![req[h].d] = 0]
          /\ \A d \in Digest : blob[d] = o => d = req[h].d
      BY <1>0, <1>3, <1>A, <2>4, <2>13, Steps, Effects DEF Worked
    <3>2. ~Row(o)' /\ ~Session(o)'
      BY <1>0, <3>1 DEF Row, Session
    <3>3. Single(o)' /\ Worked(h, o)'
      BY <1>A, <3>1, <3>2 DEF Single, Row, Session, Worked, Went
    <3> QED
      BY <1>1, <2>1, <2>2, <3>2, <3>3, Alone DEF Row
  <2> QED
    BY <2>6, <2>7, <2>8, <2>9, <2>10, <2>11, <2>12, <2>13 DEF UploadStep
<1> QED
  BY <1>2, <1>3

LEMMA RequestBytes ==
  ASSUME IType, IType', NEW o \in Nat \ {0}, Lone(o), Lone(o)', Unshared(o),
         NEW h \in Handler, Request(h) \/ (ManifestStep(h) /\ ~DeleteBlobRow(h))
  PROVE  Unshared(o)'
<1>A. /\ Filling = {"write", "final", "received", "empty", "verify"} /\ Checked = {"exists", "insert", "reuse"}
      /\ OfSession = {"write", "final", "received", "empty", "verify", "exists", "insert", "reuse", "drop"}
      /\ Making = {"session", "body", "row"} /\ Removing = {"deleteRow", "unlink"}
  BY DEF Making, OfSession, Filling, Checked, Removing
<1>0. /\ Len(object) \in Nat
      /\ \A u \in Upload : upload[u].o \in 0 .. Len(object)
      /\ \A d \in Digest : blob[d] \in 0 .. Len(object)
  BY DEF IType, Tables, Created, SessionType
<1>1. CASE ManifestStep(h) /\ ~DeleteBlobRow(h)
  BY <1>1, ManifestEffects, Aside DEF Others
<1>2. CASE Request(h)
  <2>0. UNCHANGED <<blob, gc>> /\ Others(h) /\ req[h].o = 0
    BY <1>2, Idle, RequestEffects DEF Began
  <2>1. CASE req'[h].o # o
    <3>1. \A k \in Handler : req[k].o = o \/ req'[k].o = o => req'[k] = req[k]
      BY <2>0, <2>1 DEF Others
    <3>2. \A u \in Upload : upload'[u].o = o => upload[u].o = o
      BY <1>2, RequestEffects
    <3>3. o \in 1 .. Len(object) => object'[o] = object[o]
      BY <1>2, RequestEffects
    <3> QED
      BY <2>0, <3>1, <3>2, <3>3, Aside
  <2>2. CASE req'[h].o = o
    <3>1. \A k \in Handler : k # h => req'[k].o # o /\ req[k].o # o
      BY <2>0, <2>2 DEF Lone, Others
    <3>2. o \notin GcObjects /\ gc.hand.o # o
      <4>1. GcObjects' = GcObjects
        BY <2>0 DEF GcObjects
      <4> QED
        BY <2>2, <4>1, InHandListed DEF Lone
    <3>3. \A d \in Digest : blob[d] = o => object[o] = d
      BY <3>2 DEF Unshared, Served
    <3>4. ~With(o, {"drop"})
      BY <2>0, <3>1 DEF With
    <3>5. Single(o) /\ ~(Row(o) /\ Session(o))
      BY <3>4 DEF Unshared, Single
    <3>6. CASE /\ Began(h, "session") \/ Began(h, "body")
               /\ req'[h].o = Len(object) + 1 /\ upload' = upload
      <4>1. ~Row(o)' /\ ~Session(o)'
        BY <1>0, <2>0, <2>2, <3>6 DEF Row, Session
      <4>2. Single(o)'
        BY <4>1 DEF Single, Row, Session
      <4>3. Worked(h, o)'
        BY <1>A, <3>6 DEF Worked, Began
      <4> QED
        BY <2>0, <3>1, <3>2, <4>1, <4>2, <4>3, Alone DEF Row
    <3>7. CASE /\ UNCHANGED <<upload, object>> /\ Began(h, "deleteRow")
               /\ \E d \in Digest : req'[h].o = blob[d] /\ req'[h].d = d /\ blob[d] # 0
      <4>1. PICK d \in Digest : o = blob[d] /\ req'[h].d = d
        BY <2>2, <3>7
      <4>2. Row(o)' /\ ~Session(o)' /\ \A e \in Digest : blob'[e] = o => e = d
        BY <2>0, <3>5, <3>7, <4>1 DEF Single, Row, Session
      <4>3. Single(o)'
        BY <4>2 DEF Single, Session
      <4>4. Worked(h, o)'
        BY <1>A, <3>7, <4>1, <4>2 DEF Worked, Began
      <4> QED
        BY <2>0, <3>1, <3>2, <3>3, <3>7, <4>3, <4>4, Alone
    <3>8. CASE /\ UNCHANGED <<upload, object>> /\ \E at \in Filling : Began(h, at)
               /\ \E u \in Upload : req'[h].o = upload[u].o /\ req'[h].u = u /\ upload[u].o # 0
      <4>1. PICK u \in Upload : o = upload[u].o /\ req'[h].u = u
        BY <2>2, <3>8
      <4>2. ~Row(o)' /\ \A v \in Upload : upload'[v].o = o => v = u
        BY <2>0, <3>5, <3>8, <4>1 DEF Single, Row, Session
      <4>3. Single(o)'
        BY <4>2 DEF Single, Row
      <4>4. Worked(h, o)'
        BY <1>A, <3>8, <4>1, <4>2 DEF Worked, Began
      <4> QED
        BY <2>0, <3>1, <3>2, <3>3, <3>8, <4>3, <4>4, Alone
    <3>9. CASE /\ object' = object /\ Began(h, "unlink")
               /\ \E u \in Upload : /\ req'[h].o = upload[u].o /\ upload[u].o # 0 /\ upload'[u].o = 0
                                    /\ \A v \in Upload : v # u => upload'[v].o = upload[v].o
      <4>1. PICK u \in Upload : /\ o = upload[u].o /\ upload'[u].o = 0
                                /\ \A v \in Upload : v # u => upload'[v].o = upload[v].o
        BY <2>2, <3>9
      <4>2. ~Row(o)' /\ ~Session(o)'
        BY <2>0, <3>5, <4>1 DEF Single, Row, Session
      <4>3. Single(o)' /\ Worked(h, o)'
        BY <1>A, <3>9, <4>2 DEF Single, Row, Session, Worked, Began
      <4> QED
        BY <2>0, <3>1, <3>2, <4>2, <4>3, Alone DEF Row
    <3>10. req'[h] # NoRequest /\ req'[h].o # 0
      BY <2>2, Idle
    <3> QED
      BY <1>2, <3>6, <3>7, <3>8, <3>9, <3>10, RequestEffects
  <2> QED
    BY <2>1, <2>2
<1> QED
  BY <1>1, <1>2

LEMMA OtherBytes ==
  ASSUME IType, NEW o \in Nat \ {0}, Lone(o), Lone(o)', Unshared(o), o \notin Torn, faults \in Nat,
         \/ (\E u \in Upload : Expire(u)) \/ GcStep \/ CrashGc \/ GcFails \/ UNCHANGED vars
         \/ CrashApi \/ \E h \in Handler : Fails(h)
  PROVE  Unshared(o)'
<1>0. /\ Tables /\ GcOK(gc) /\ Len(object) \in Nat /\ Nothing.o = 0
      /\ \A x \in GcObjects : x \in 1 .. Len(object)
  BY DEF IType, Tables, Nothing, Created, GcOK, GcObjects, UploadItem, BlobItem
<1>1. CASE UNCHANGED <<blob, object, req, gc>> /\ SameSessions
  BY <1>1, Aside DEF SameSessions
<1>2. CASE /\ UNCHANGED <<blob, upload, object, req>> /\ gc.hand = Nothing /\ gc'.hand = Nothing
           /\ \/ gc'.at = "uploads" /\ \A x \in gc'.todo : x.key \in Upload /\ x.o = upload[x.key].o /\ x.o # 0
              \/ gc'.at = "blobs" /\ \A x \in gc'.todo : x.key \in Digest /\ x.o = blob[x.key] /\ x.o # 0
              \/ gc'.at \in {"idle", "manifests"}
  <2>1. (Row(o)' <=> Row(o)) /\ (Session(o)' <=> Session(o)) /\ \A ats : With(o, ats)' <=> With(o, ats)
    BY <1>2 DEF Row, Session, With
  <2>2. Single(o)' /\ Served(o)' /\ \A h \in Handler : Worked(h, o)'
    BY <1>2, <2>1 DEF Unshared, Single, Served, Worked
  <2>3. ASSUME gc'.at = "uploads", NEW x \in gc'.todo, x.o = o PROVE ~Row(o)'
    <3>1. Session(o) /\ o \in GcObjects'
      BY <1>2, <2>3 DEF Session, GcObjects
    <3>2. ~With(o, {"drop"})
      BY <1>2, <3>1 DEF Lone, With
    <3> QED
      BY <2>1, <3>1, <3>2 DEF Unshared, Single
  <2>4. ASSUME gc'.at = "blobs", NEW x \in gc'.todo, x.o = o
        PROVE  \A d \in Digest : blob'[d] = o => d = x.key
    BY <1>2, <2>4 DEF Unshared, Single
  <2>5. Collected(o)'
    BY <1>2, <2>3, <2>4 DEF Collected
  <2> QED
    BY <2>2, <2>5 DEF Unshared
<1>3. ASSUME UNCHANGED <<blob, upload, req>>, gc.hand = Nothing, gc'.at = gc.at, NEW x \in gc.todo,
             \/ gc.at \in {"uploads", "blobs"} /\ Wrote(x.o, Absent) /\ gc'.todo = gc.todo /\ gc'.hand = x
             \/ object' = object /\ gc'.todo \subseteq gc.todo /\ gc'.hand = Nothing
      PROVE  Unshared(o)'
  <2>1. CASE object' = object \/ (Wrote(x.o, Absent) /\ x.o # o)
    BY <1>0, <1>3, <2>1, Aside DEF Wrote
  <2>2. CASE /\ gc.at \in {"uploads", "blobs"} /\ Wrote(x.o, Absent) /\ gc'.todo = gc.todo /\ gc'.hand = x
             /\ x.o = o
    <3>1. \A h \in Handler : req'[h].o # o
      BY <1>3, <2>2 DEF Lone, GcObjects
    <3>2. (Row(o)' <=> Row(o)) /\ (Session(o)' <=> Session(o)) /\ \A ats : With(o, ats)' <=> With(o, ats)
      BY <1>3 DEF Row, Session, With
    <3>3. Single(o)' /\ Served(o)' /\ \A h \in Handler : Worked(h, o)'
      BY <1>3, <2>2, <3>1, <3>2 DEF Unshared, Single, Served, Worked
    <3>4. Collected(o)'
      BY <1>3, <2>2, <3>2 DEF Unshared, Collected
    <3> QED
      BY <3>3, <3>4 DEF Unshared
  <2> QED
    BY <1>3, <2>1, <2>2
<1>4. CASE /\ UNCHANGED <<blob, object, req>> /\ gc'.at = gc.at /\ gc.at = "uploads"
           /\ gc'.hand = Nothing /\ gc'.todo = gc.todo \ {gc.hand} /\ gc.hand \in gc.todo
           /\ \A v \in Upload :
                upload'[v].o = IF v = gc.hand.key /\ upload[v].o = gc.hand.o THEN 0 ELSE upload[v].o
  <2>1. CASE gc.hand.o # o
    BY <1>4, <2>1, Aside
  <2>2. CASE gc.hand.o = o
    <3>1. ~Row(o) /\ \A h \in Handler : req[h].o # o
      BY <1>4, <2>2 DEF Unshared, Collected, Lone, GcObjects
    <3>2. ~Row(o)' /\ \A h \in Handler : req'[h].o # o
      BY <1>4, <3>1 DEF Row
    <3>3. \A u \in Upload : upload'[u].o = o => upload[u].o = o
      BY <1>4
    <3>4. Single(o)' /\ Served(o)' /\ (\A h \in Handler : Worked(h, o)') /\ Collected(o)'
      BY <1>4, <3>2, <3>3 DEF Unshared, Single, Served, Worked, Collected, Row
    <3> QED
      BY <3>4 DEF Unshared
  <2> QED
    BY <2>1, <2>2
<1>5. CASE /\ UNCHANGED <<upload, object, req>> /\ gc'.at = gc.at /\ gc.at = "blobs"
           /\ gc'.hand = Nothing /\ gc'.todo = gc.todo \ {gc.hand} /\ gc.hand \in gc.todo
           /\ gc.hand.key \in Digest /\ blob' = [blob EXCEPT ![gc.hand.key] = 0]
  <2>0. \A d \in Digest : blob'[d] = IF d = gc.hand.key THEN 0 ELSE blob[d]
    BY <1>0, <1>5 DEF Tables
  <2>1. CASE gc.hand.o # o
    BY <1>5, <2>0, <2>1, Aside
  <2>2. CASE gc.hand.o = o
    <3>1. /\ \A d \in Digest : blob[d] = o => d = gc.hand.key
          /\ \A h \in Handler : req[h].o # o
      BY <1>5, <2>2 DEF Unshared, Collected, Lone, GcObjects
    <3>2. ~Row(o)' /\ \A h \in Handler : req'[h].o # o
      BY <1>5, <2>0, <3>1 DEF Row
    <3>3. Single(o)' /\ Served(o)' /\ (\A h \in Handler : Worked(h, o)') /\ Collected(o)'
      BY <1>5, <3>2 DEF Unshared, Single, Served, Worked, Collected, Row
    <3> QED
      BY <3>3 DEF Unshared
  <2> QED
    BY <2>1, <2>2
<1>6. CASE /\ UNCHANGED <<blob, upload, object, gc>> /\ faults' = faults + 1
           /\ \A k \in Handler : req'[k] = req[k] \/ req'[k] = NoRequest
  <2>0. \A k \in Handler : req'[k].o = o => req'[k] = req[k]
    BY <1>6, Idle
  <2>1. CASE \A k \in Handler : req[k].o = o => req'[k] = req[k]
    BY <1>6, <2>0, <2>1, Aside
  <2>2. ASSUME NEW h \in Handler, req[h].o = o, req'[h] # req[h] PROVE Unshared(o)'
    <3>1. /\ o \notin GcObjects /\ gc.hand.o # o /\ req'[h].o = 0
          /\ \A k \in Handler : k # h => req[k].o # o
      BY <1>6, <2>2, Idle, InHandListed DEF Lone
    <3>2. \A k \in Handler : req'[k].o # o
      BY <2>0, <2>2, <3>1
    <3>3. ~(Row(o) /\ Session(o))
      <4> SUFFICES ASSUME Row(o), Session(o) PROVE FALSE
        OBVIOUS
      <4>1. req[h].at = "drop"
        BY <2>2, <3>1 DEF Unshared, Single, With
      <4>2. PICK d \in Digest : blob[d] = o
        BY DEF Row
      <4>3. d = req[h].d
        BY <2>2, <4>1, <4>2 DEF Unshared, Worked
      <4>4. o \in Committing
        BY <2>2, <4>1, <4>2, <4>3 DEF Committing, At
      <4>5. o \notin Committing'
        BY <3>2 DEF Committing
      <4> QED
        BY <1>6, <4>4, <4>5 DEF Torn
    <3>4. Single(o)'
      BY <1>6, <3>3 DEF Unshared, Single, Row, Session
    <3>5. Worked(h, o)'
      BY <3>2 DEF Worked
    <3>6. \A d \in Digest : blob'[d] = o => object'[o] = d
      BY <1>6, <3>1 DEF Unshared, Served
    <3> QED
      BY <1>6, <3>1, <3>2, <3>4, <3>5, <3>6, Alone
  <2> QED
    BY <2>1, <2>2
<1>7. CASE /\ UNCHANGED <<blob, upload, object, req>> /\ gc'.at \in {gc.at, "idle"} /\ gc'.hand = Nothing
           /\ gc'.todo \subseteq gc.todo /\ faults' = faults + 1
  <2>1. CASE gc.hand.o # o
    BY <1>7, <2>1, Aside
  <2>2. CASE gc.hand.o = o
    <3>1. /\ gc.hand \in gc.todo /\ gc.at \in {"uploads", "blobs"}
          /\ \A h \in Handler : req[h].o # o
      BY <2>2, InHandListed DEF Lone, GcObjects
    <3>2. gc.at # "blobs"
      BY <1>0, <1>7, <2>2 DEF Torn, Sweeping
    <3>3. ~Row(o)
      BY <2>2, <3>1, <3>2 DEF Unshared, Collected
    <3>4. ~Row(o)' /\ gc'.at # "blobs" /\ \A h \in Handler : req'[h].o # o
      BY <1>7, <3>1, <3>2, <3>3 DEF Row
    <3>5. Single(o)' /\ Served(o)' /\ (\A h \in Handler : Worked(h, o)') /\ Collected(o)'
      BY <1>7, <3>4 DEF Unshared, Single, Served, Worked, Collected, Row
    <3> QED
      BY <3>5 DEF Unshared
  <2> QED
    BY <2>1, <2>2
<1> QED
  BY <1>1, <1>2, <1>3, <1>4, <1>5, <1>6, <1>7, OtherEffects

\* A committed blob is served with the bytes of its digest, unless two requests, or
\* a request and the collector, worked on its object at once; the request that
\* committed it crashed, or failed, before its session was deleted; or the collector
\* has unlinked the object and its row is still there: the uploads in every order of
\* their steps, any of which may fail, the deletions, the collector between them.
THEOREM BlobsServed == Spec => []BlobsReadable
<1>1. Init => SInv
  <2> SUFFICES ASSUME Init PROVE SInv
    OBVIOUS
  <2>1. \A h \in Handler : req[h].o = 0
    BY DEF Init, NoRequest
  <2>2. gc.todo = {} /\ GcObjects = {}
    BY Rests DEF Init, GcObjects
  <2>3. \A u \in Upload : upload[u].o = 0
    BY DEF Init, NoSession
  <2>4. \A o \in Nat \ {0} : Lone(o) /\ ~Row(o) /\ ~Session(o)
    BY <2>1, <2>2, <2>3 DEF Init, Lone, Row, Session
  <2>5. \A o \in Nat \ {0} : Unshared(o)
    BY <2>1, <2>2, <2>4 DEF Unshared, Single, Served, Worked, Collected, Row, Session
  <2> QED
    BY <2>4, <2>5 DEF Init, SInv
<1>2. IType /\ Sole /\ SInv /\ IType' /\ [Next]_vars => SInv'
  <2> SUFFICES ASSUME IType, Sole, SInv, IType', [Next]_vars PROVE SInv'
    OBVIOUS
  <2>1. faults' \in Nat
    <3>1. faults' \in {faults, faults + 1}
      <4>1. ASSUME NEW h \in Handler, UploadStep(h) \/ ManifestStep(h) PROVE faults' \in {faults, faults + 1}
        BY <4>1, Effects, ManifestEffects DEF UploadStep
      <4>2. CASE UNCHANGED vars
        BY <4>2 DEF vars
      <4> QED
        BY <4>1, <4>2, RequestEffects, OtherEffects DEF Next, Step
    <3> QED
      BY <3>1 DEF SInv
  <2>2. ASSUME NEW o \in Nat \ {0}, o \notin shared' PROVE Lone(o)' /\ Unshared(o)'
    <3>1. o \notin shared /\ (UNCHANGED vars \/ (o \notin Contended' /\ o \notin Torn))
      BY <2>2 DEF Next, vars
    <3>2. Lone(o) /\ Unshared(o) /\ faults \in Nat
      BY <3>1 DEF SInv
    <3>3. Lone(o)'
      <4>1. CASE UNCHANGED vars
        BY <3>2, <4>1 DEF vars, Lone, GcObjects
      <4>2. CASE o \notin Contended'
        BY <4>2 DEF Contended, InHand, Lone
      <4> QED
        BY <3>1, <4>1, <4>2
    <3>4. CASE UNCHANGED vars
      <4>1. UNCHANGED <<blob, upload, object, req, gc>>
        BY <3>4 DEF vars
      <4> QED
        BY <3>2, <3>3, <4>1, Aside
    <3>5. CASE Step /\ o \notin Torn
      BY <3>2, <3>3, <3>5, UploadBytes, RequestBytes, OtherBytes DEF Step, ManifestStep
    <3> QED
      BY <3>1, <3>3, <3>4, <3>5 DEF Next
  <2> QED
    BY <2>1, <2>2 DEF SInv
<1>3. IType /\ SInv => BlobsReadable
  <2> SUFFICES ASSUME IType, SInv, NEW d \in Digest, blob[d] # 0, blob[d] \notin shared
               PROVE  Servable(d) \/ gc.hand.o = blob[d]
    BY DEF BlobsReadable
  <2>1. blob[d] \in Nat \ {0}
    BY DEF IType, Tables
  <2> QED
    BY <2>1 DEF SInv, Unshared, Served, Servable
<1>4. Init => Sole
  <2>1. None \notin Making
    BY DEF Making, None
  <2> QED
    BY <2>1 DEF Init, NoRequest, Sole
<1>5. IType /\ Sole /\ [Next]_vars => Sole'
  BY SoleKept
<1> QED
  BY <1>1, <1>2, <1>3, <1>4, <1>5, TypesInvariant, PTL DEF Spec

=============================================================================
