------------------------------ MODULE TestRuns ------------------------------
(***************************************************************************)
(* Test Runs and lint runs in the sandbox (packages/core/src/testRuns):    *)
(* runs of one Stack Profile that share a Base Snapshot, its one build at  *)
(* a time, and the cache of uploaded contents, while the sandbox may drop  *)
(* an image or a file (a 404 or a 410) and each run starts over once.      *)
(*                                                                         *)
(* A caller's `place` is the await it is at; "build" is the caller that    *)
(* stands for the build under way.  Images and uploads are numbers, given  *)
(* in order.                                                               *)
(***************************************************************************)
EXTENDS Integers, FiniteSets

CONSTANTS
    Runs,        \* the Test Runs and lint runs
    MaxImages,   \* bound: images built
    MaxUploads,  \* bound: contents sent
    MaxFailures, \* bound: requests that fail for good
    MaxExpiries  \* bound: times the sandbox drops what it held

VARIABLES
    saved,     \* the Base Snapshot's image in the store, or 0
    old,       \* it is older than MAX_SNAPSHOT_AGE_DAYS
    images,    \* the images built
    cache,     \* content -> the upload it is cached under, or 0
    sends,     \* upload -> [content, state]
    gone,      \* the images and the uploads the sandbox has dropped
    place, attempt, image, file,   \* of each caller
    outcome,   \* of each run
    failures, expiries,
    \* History, read by properties only: what was gone when a run started over.
    foundGone

store == <<saved, old>>
sandbox == <<images, gone, expiries>>
uploaded == <<cache, sends>>
callers == <<place, attempt, image, file, outcome, foundGone>>
testRunVars == <<store, sandbox, uploaded, callers, failures>>

-----------------------------------------------------------------------------
Build == "build"
Callers == Runs \cup {Build}

\* What a caller uploads: the files of the application that differ from the
\* Base Snapshot (planUpload), or the template itself.
Contents == {"application", "template"}
ContentOf(c) == IF c = Build THEN "template" ELSE "application"

NoSend == [content |-> "none", state |-> "none"]

Init ==
    /\ saved = 0 /\ old = FALSE /\ images = 0 /\ gone = {}
    /\ cache = [content \in Contents |-> 0]
    /\ sends = [u \in 1..MaxUploads |-> NoSend]
    /\ place = [c \in Callers |-> "idle"] /\ attempt = [c \in Runs |-> 1]
    /\ image = [c \in Runs |-> 0] /\ file = [c \in Callers |-> 0]
    /\ outcome = [c \in Runs |-> "none"] /\ foundGone = [c \in Runs |-> {}]
    /\ failures = 0 /\ expiries = 0

ImageThing(i) == <<"image", i>>
FileThing(u) == <<"file", u>>

\* A request that fails for good: #request has retried what is transient.
Fails == failures < MaxFailures /\ failures' = failures + 1

\* What is not yet known of the upload a caller waits for.
Sent(u) == sends[u].state

-----------------------------------------------------------------------------
\* snapshotImage: the saved image, the build under way, or a new one.
snapshotImage(c) ==
    /\ c \in Runs /\ place[c] = "idle" /\ outcome[c] = "none"
    /\ IF saved # 0 /\ ~old
       THEN /\ image' = [image EXCEPT ![c] = saved]
            /\ place' = [place EXCEPT ![c] = "uploading"]
       ELSE /\ place' = [place EXCEPT ![c] = "waiting",
                                      ![Build] = IF @ = "idle" THEN "uploading" ELSE @]
            /\ UNCHANGED image
    /\ UNCHANGED <<store, sandbox, uploaded, attempt, file, outcome, foundGone, failures>>

\* uploadFiles: content that is cached, even still on its way, is not sent again.
uploadFiles(c) ==
    /\ place[c] = "uploading"
    /\ LET content == ContentOf(c)
           next == 1 + Cardinality({u \in DOMAIN sends : sends[u] # NoSend}) IN
       IF cache[content] # 0
       THEN file' = [file EXCEPT ![c] = cache[content]] /\ UNCHANGED uploaded
       ELSE /\ next <= MaxUploads
            /\ sends' = [sends EXCEPT ![next] = [content |-> content, state |-> "sending"]]
            /\ cache' = [cache EXCEPT ![content] = next]
            /\ file' = [file EXCEPT ![c] = next]
    /\ place' = [place EXCEPT ![c] = "sending"]
    /\ UNCHANGED <<store, sandbox, attempt, image, outcome, foundGone, failures>>

UploadStored(u) ==
    /\ sends[u].state = "sending"
    /\ sends' = [sends EXCEPT ![u].state = "stored"]
    /\ UNCHANGED <<store, sandbox, cache, callers, failures>>

\* Mutant: a failed upload stays in the cache.
ForgetsNothing(content) == cache
\* A failed upload must not be reused: its content is forgotten, whatever
\* upload the cache has for it by then.
Forgets(content) == [cache EXCEPT ![content] = 0]

UploadFailed(u) ==
    /\ sends[u].state = "sending" /\ Fails
    /\ sends' = [sends EXCEPT ![u].state = "failed"]
    /\ cache' = Forgets(sends[u].content)
    /\ UNCHANGED <<store, sandbox, callers>>

\* The upload a caller waits for is stored: the run is spawned.
Spawns(c) ==
    /\ place[c] = "sending" /\ Sent(file[c]) = "stored"
    /\ place' = [place EXCEPT ![c] = "running"]
    /\ UNCHANGED <<store, sandbox, uploaded, attempt, image, file, outcome, foundGone, failures>>

\* What the spawned run names is not there any more.
Names(c) == {FileThing(file[c])} \cup IF c = Build THEN {} ELSE {ImageThing(image[c])}
IsGone(c) == Names(c) \cap gone # {}

\* The ways an await of a caller rejects: a file that failed to upload, a thing
\* that is gone, a request that failed, an operation that never ended.
RejectsAs(c) ==
    \/ place[c] = "sending" /\ Sent(file[c]) = "failed" /\ UNCHANGED failures
    \/ place[c] = "running" /\ ~IsGone(c) /\ Fails
RejectsGone(c) == place[c] = "running" /\ IsGone(c) /\ UNCHANGED failures

\* Mutant: only the Base Snapshot is forgotten, not what was uploaded.
ForgetsSnapshotOnly(c) == UNCHANGED cache
\* discardSnapshot and the cache cleared: what was shared is forgotten for all.
StartsOver(c) == cache' = [content \in Contents |-> 0]

\* runTests or runLinters rejected: the first time for a thing that is gone,
\* it starts over from scratch.
RejectRun(c, isGone) ==
    IF isGone /\ attempt[c] = 1
    THEN /\ saved' = 0 /\ old' = FALSE /\ StartsOver(c)
         /\ attempt' = [attempt EXCEPT ![c] = 2]
         /\ place' = [place EXCEPT ![c] = "idle"]
         /\ foundGone' = [foundGone EXCEPT ![c] = gone]
         /\ UNCHANGED outcome
    ELSE /\ outcome' = [outcome EXCEPT ![c] = "rejected"]
         /\ place' = [place EXCEPT ![c] = "idle"]
         /\ UNCHANGED <<store, cache, attempt, foundGone>>

RunRejects(c) ==
    /\ c \in Runs
    /\ \/ RejectsAs(c) /\ RejectRun(c, FALSE)
       \/ RejectsGone(c) /\ RejectRun(c, TRUE)
    /\ UNCHANGED <<sandbox, sends, image, file>>

\* toOutcome: the script's verdict and its exit code must agree.
toOutcome(scriptPassed, commandSucceeded) ==
    IF scriptPassed = "unread" THEN "broken"
    ELSE IF scriptPassed = "no" THEN "failed"
    ELSE IF commandSucceeded THEN "passed" ELSE "broken"

RunEnds(c) ==
    /\ c \in Runs /\ place[c] = "running" /\ ~IsGone(c)
    /\ \E script \in {"yes", "no", "unread"}, succeeded \in BOOLEAN :
           outcome' = [outcome EXCEPT ![c] = toOutcome(script, succeeded)]
    /\ place' = [place EXCEPT ![c] = "idle"]
    /\ UNCHANGED <<store, sandbox, uploaded, attempt, image, file, foundGone, failures>>

Waiting == {c \in Runs : place[c] = "waiting"}

\* The build's image is saved and given to every run that waits for it.
BuildEnds ==
    /\ place[Build] = "running" /\ ~IsGone(Build) /\ images < MaxImages
    /\ images' = images + 1 /\ saved' = images' /\ old' = FALSE
    /\ image' = [c \in Runs |-> IF c \in Waiting THEN images' ELSE image[c]]
    /\ place' = [c \in Callers |->
                   IF c = Build THEN "idle" ELSE IF c \in Waiting THEN "uploading" ELSE place[c]]
    /\ UNCHANGED <<gone, expiries, uploaded, attempt, file, outcome, foundGone, failures>>

\* The build rejects, and with it every run that waits for it: the ones at their
\* first attempt start over if a thing was gone.
BuildRejects ==
    \E isGone \in BOOLEAN :
        LET again == {c \in Waiting : isGone /\ attempt[c] = 1} IN
        /\ IF isGone THEN RejectsGone(Build) ELSE RejectsAs(Build)
        /\ place' = [c \in Callers |-> IF c = Build \/ c \in Waiting THEN "idle" ELSE place[c]]
        /\ outcome' = [c \in Runs |->
                         IF c \in Waiting \ again THEN "rejected" ELSE outcome[c]]
        /\ attempt' = [c \in Runs |-> IF c \in again THEN 2 ELSE attempt[c]]
        /\ foundGone' = [c \in Runs |-> IF c \in again THEN gone ELSE foundGone[c]]
        /\ IF again = {} THEN UNCHANGED <<store, cache>>
           ELSE saved' = 0 /\ old' = FALSE /\ StartsOver(Build)
        /\ UNCHANGED <<sandbox, sends, image, file>>

\* The sandbox drops an image or a file.
Held == {ImageThing(i) : i \in 1..images}
        \cup {FileThing(u) : u \in {n \in DOMAIN sends : Sent(n) = "stored"}}

Expires ==
    /\ expiries < MaxExpiries /\ expiries' = expiries + 1
    /\ \E thing \in Held \ gone : gone' = gone \cup {thing}
    /\ UNCHANGED <<store, images, uploaded, callers, failures>>

GetsOld ==
    /\ saved # 0 /\ ~old /\ old' = TRUE
    /\ UNCHANGED <<saved, sandbox, uploaded, callers, failures>>

Next ==
    \/ \E c \in Callers : snapshotImage(c) \/ uploadFiles(c) \/ Spawns(c) \/ RunRejects(c) \/ RunEnds(c)
    \/ \E u \in DOMAIN sends : UploadStored(u) \/ UploadFailed(u)
    \/ BuildEnds \/ BuildRejects \/ Expires \/ GetsOld

Spec == Init /\ [][Next]_testRunVars

-----------------------------------------------------------------------------
(* A run that starts over does so from scratch: it names no image and no   *)
(* file that was gone when it did, whatever the other runs put back in the *)
(* store and the cache meanwhile (runTests, runLinters, discardSnapshot).  *)
RetryIsFresh ==
    \A c \in Runs : attempt[c] = 2 /\ place[c] = "running" => Names(c) \cap foundGone[c] = {}

(* Once its upload has failed, no run is given that upload: the cache the  *)
(* runs share holds none (uploadFiles, "must not be reused by the next").  *)
NoFailedUploadIsShared ==
    \A content \in Contents : cache[content] # 0 => Sent(cache[content]) # "failed"
=============================================================================
