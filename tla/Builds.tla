-------------------------------- MODULE Builds --------------------------------
(***************************************************************************)
(* Image builds (build/kaniko.go, and kube/buildpacks.go alike): a worker  *)
(* sets up the build namespace, submits a Job, polls it until it has ended *)
(* or the time is up, and reports the image it pushed.  What becomes of    *)
(* the app is in AppLifecycle.                                             *)
(***************************************************************************)
EXTENDS Naturals

CONSTANTS
    Builds,     \* builds of one app
    Tags,       \* ids of builds cut to eight characters
    Tag         \* the cut id of a build: it names its Job and its image

ASSUME TagAssumption == Tag \in [Builds -> Tags]

VARIABLES
    worker,     \* where a build's worker is
    isolation,  \* the parts of the build namespace that are set up
    kaniko,     \* the Jobs, by tag: whose, and how far
    image       \* the registry: whose image a tag refers to

buildVars == <<worker, isolation, kaniko, image>>

IsolationParts == {"serviceAccount", "egressPolicy"}
NoKaniko == [of |-> "none", phase |-> "none"]

BuildsInit ==
    /\ worker = [b \in Builds |-> "idle"]
    /\ isolation = {}
    /\ kaniko = [t \in Tags |-> NoKaniko]
    /\ image = [t \in Tags |-> "none"]

WorkerGoes(b, to) == worker' = [worker EXCEPT ![b] = to]

\* Build: the request is checked first, and may not pass.
Build(b) ==
    /\ worker[b] = "idle"
    /\ \E to \in {"account", "failed"} : WorkerGoes(b, to)
    /\ UNCHANGED <<isolation, kaniko, image>>

\* ensureIsolation: each part is created or there; a call that fails ends the build.
ensureIsolation(b) ==
    /\ \/ /\ worker[b] = "account" /\ WorkerGoes(b, "policy")
          /\ isolation' = isolation \union {"serviceAccount"}
       \/ /\ worker[b] = "policy" /\ WorkerGoes(b, "submit")
          /\ isolation' = isolation \union {"egressPolicy"}
       \/ worker[b] \in {"account", "policy"} /\ WorkerGoes(b, "failed") /\ UNCHANGED isolation
    /\ UNCHANGED <<kaniko, image>>

\* Mutant: the Job that is there is polled.
SubmitOrJoin(b) ==
    /\ worker[b] = "submit"
    /\ kaniko' = IF kaniko[Tag[b]] = NoKaniko THEN [kaniko EXCEPT ![Tag[b]] = [of |-> b, phase |-> "running"]]
                 ELSE kaniko
    /\ WorkerGoes(b, "poll")
    /\ UNCHANGED <<isolation, image>>

\* A Job of the name is a duplicate: the build fails rather than polls it.  The call may also
\* fail, the Job created or not.
Submit(b) ==
    /\ worker[b] = "submit"
    /\ \/ /\ kaniko[Tag[b]] = NoKaniko
          /\ kaniko' = [kaniko EXCEPT ![Tag[b]] = [of |-> b, phase |-> "running"]]
          /\ \E to \in {"poll", "failed"} : WorkerGoes(b, to)
       \/ WorkerGoes(b, "failed") /\ UNCHANGED kaniko
    /\ UNCHANGED <<isolation, image>>

\* One poll: the Job has ended, or is not there or not done; then the time may be up.  A read
\* that fails ends the build, whatever the Job does.
waitForJob(b) ==
    /\ worker[b] = "poll"
    /\ \/ kaniko[Tag[b]].phase = "complete" /\ WorkerGoes(b, "succeeded")
       \/ WorkerGoes(b, "failed")
    /\ UNCHANGED <<isolation, kaniko, image>>

\* The Job pushes its image when the build is done, its worker waiting or not.
Push(t) ==
    /\ kaniko[t].phase = "running"
    /\ image' = [image EXCEPT ![t] = kaniko[t].of]
    /\ kaniko' = [kaniko EXCEPT ![t].phase = "pushed"]
    /\ UNCHANGED <<worker, isolation>>

\* It completes after the push, or fails: the Dockerfile, the push, the deadline.
EndJob(t) ==
    /\ \/ kaniko[t].phase = "pushed" /\ kaniko' = [kaniko EXCEPT ![t].phase = "complete"]
       \/ kaniko[t].phase \in {"running", "pushed"} /\ kaniko' = [kaniko EXCEPT ![t].phase = "failed"]
    /\ UNCHANGED <<worker, isolation, image>>

\* A Job is deleted an hour after it ended; its worker has not so much time.
ExpireJob(t) ==
    /\ kaniko[t].phase \in {"complete", "failed"}
    /\ \A b \in Builds : worker[b] = "poll" => Tag[b] # t
    /\ kaniko' = [kaniko EXCEPT ![t] = NoKaniko]
    /\ UNCHANGED <<worker, isolation, image>>

BuildsNext ==
    \/ \E b \in Builds : Build(b) \/ ensureIsolation(b) \/ Submit(b) \/ waitForJob(b)
    \/ \E t \in Tags : Push(t) \/ EndJob(t) \/ ExpireJob(t)

BuildsSpec == BuildsInit /\ [][BuildsNext]_buildVars

-----------------------------------------------------------------------------
(* Properties.                                                             *)

\* Types.
BuildsTypeOK ==
    /\ worker \in [Builds -> {"idle", "account", "policy", "submit", "poll", "succeeded", "failed"}]
    /\ isolation \subseteq IsolationParts
    /\ kaniko \in [Tags -> [of : Builds \union {"none"}, phase : {"none", "running", "pushed", "complete", "failed"}]]
    /\ image \in [Tags -> Builds \union {"none"}]

\* When a build reports success its tag refers to the image of its own Job, though another
\* build has the same tag, and a Job of before is still there (Build: never a stale or
\* never-built image).
NoStaleImage ==
    [][\A b \in Builds : worker[b] = "poll" /\ worker'[b] = "succeeded" => image'[Tag[b]] = b]_buildVars

\* No Job runs before the namespace's service account and egress policy are there, at
\* whichever call an earlier build failed (ensureIsolation).
IsolatedFirst == (\E t \in Tags : kaniko[t] # NoKaniko) => isolation = IsolationParts

=============================================================================
