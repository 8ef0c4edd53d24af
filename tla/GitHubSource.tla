---------------------------- MODULE GitHubSource ----------------------------
(***************************************************************************)
(* How the files of one commit are fetched from GitHub                     *)
(* (adapters-source/src/github.ts, github-app.ts): with an App, discover   *)
(* its installation and get a token; then the commit, its tree, and every  *)
(* blob of the tree, one request at a time. Nothing is kept of an attempt  *)
(* that fails.                                                             *)
(*                                                                         *)
(* Only the discovery has a timer of its own. What GitHub says of a commit *)
(* never changes; whether it says so may differ from request to request.   *)
(*                                                                         *)
(* A definition marked "Faulty" takes no part in the specification.        *)
(***************************************************************************)
EXTENDS Integers, FiniteSets

CONSTANTS
    None,           \* nothing yet, or no error
    Commits,
    TreeOf,         \* the entries of the recursive tree of each commit
    Requests,       \* what a verification may be asked
    MaxFiles, MaxFileBytes, MaxTotalBytes

\* path stands for its place in the order; a symbolic link is a blob as well,
\* a submodule a "commit".
Entry == [path : Nat, type : {"blob", "commit", "tree"}, safe : BOOLEAN,
          bytes : Nat, binary : BOOLEAN]

ASSUME GitHubAssumption ==
    /\ None \notin Commits
    /\ \A c \in Commits : TreeOf[c] \subseteq Entry
    /\ \A r \in Requests : /\ {"valid", "app", "commit"} \subseteq DOMAIN r
                           /\ r.commit \in Commits
                           /\ {r.valid, r.app} \subseteq BOOLEAN

VARIABLES
    request,    \* the one being verified
    at,         \* what the verification waits for or does next
    fault,      \* the class of the error it ended with
    sha,        \* the commit that GitHub resolved
    unread,     \* blobs still to be fetched
    contents,   \* the entries whose text was kept
    bytes       \* fetched so far

acquired == <<sha, unread, contents, bytes>>

\* What can go wrong with a request, whatever it asks for.
Refusals == {"401", "403", "404", "429", "5xx", "network", "malformed"}

SourceSteps == {"resolve", "installation", "token", "commit", "tree", "blobs", "resolved"}

\* The error a refusal becomes. A 404 for the source is the caller's mistake;
\* a 429 in the discovery loses its class on the way out of the provider.
ErrorOf(step, refusal) ==
    IF refusal \in {"401", "403", "key"}
    THEN IF step \in {"installation", "token"} THEN "GitHubAppAuthentication" ELSE "GitHubAuthentication"
    ELSE IF refusal = "429" /\ step # "installation" THEN "GitHubRateLimit"
    ELSE IF step \in {"installation", "token"} THEN "GitHubInstallationToken"
    ELSE IF refusal = "404" THEN "InvalidSourceReference" ELSE "GitHubProvider"

-----------------------------------------------------------------------------
SourceInit ==
    /\ request \in Requests
    /\ at = "resolve" /\ fault = None
    /\ sha = None /\ unread = {} /\ contents = {} /\ bytes = 0

Fail(error) == at' = "failed" /\ fault' = error

Proceed(step) == at' = step /\ UNCHANGED fault

\* createGitHubSourceResolver: the reference is decoded before anything is sent.
Resolve ==
    /\ at = "resolve"
    /\ \/ ~request.valid /\ Fail("InvalidSourceReference")
       \/ request.valid /\ Proceed(IF request.app THEN "installation" ELSE "commit")
    /\ UNCHANGED <<request, acquired>>

NextBlob == CHOOSE e \in unread : \A f \in unread : e.path <= f.path

\* Any of the requests is refused, or its answer is of no use; "key": the App's
\* key cannot sign, and no request is sent.
Refused(refusal) ==
    /\ \/ at \in {"installation", "token"} /\ refusal \in Refusals \cup {"key"}
       \/ at \in {"commit", "tree", "blobs"} /\ refusal \in Refusals
    /\ at = "blobs" => unread # {} /\ NextBlob.safe
    /\ Fail(ErrorOf(at, refusal))
    /\ UNCHANGED <<request, acquired>>

Discovered == at = "installation" /\ Proceed("token") /\ UNCHANGED <<request, acquired>>

DiscoveryTimedOut ==
    at = "installation" /\ Fail("GitHubInstallationToken") /\ UNCHANGED <<request, acquired>>

TokenCreated == at = "token" /\ Proceed("commit") /\ UNCHANGED <<request, acquired>>

\* Faulty: whatever commit GitHub resolved is taken for the one asked for.
AgreesWithAny(resolved) == TRUE

Agrees(resolved) == resolved = request.commit

\* A name of forty hexadecimal digits may also be that of a branch or a tag.
CommitResolved(resolved) ==
    /\ at = "commit"
    /\ \/ ~Agrees(resolved) /\ Fail("InvalidSourceReference") /\ UNCHANGED acquired
       \/ /\ Agrees(resolved) /\ Proceed("tree")
          /\ sha' = resolved /\ UNCHANGED <<unread, contents, bytes>>
    /\ UNCHANGED request

Blobs(tree) == {e \in tree : e.type = "blob"}

\* The limits on the tree: as listed, and as filtered.
Oversized(tree) ==
    Cardinality(tree) > 2 * MaxFiles \/ Cardinality(Blobs(tree)) > MaxFiles

\* The tree of the requested commit, or of a repository too large to list.
TreeListed(truncated) ==
    /\ at = "tree"
    /\ LET tree == TreeOf[request.commit]
           bad == truncated \/ Oversized(tree)
       IN  \/ bad /\ Fail("GitHubProvider") /\ UNCHANGED acquired
           \/ ~bad /\ Proceed("blobs") /\ unread' = Blobs(tree) /\ UNCHANGED <<sha, contents, bytes>>
    /\ UNCHANGED request

\* One blob: its path is checked before it is fetched, its size after; a binary
\* file counts and is dropped without an error.
BlobFetched ==
    /\ at = "blobs" /\ unread # {}
    /\ LET e == NextBlob
           bad == ~e.safe \/ e.bytes > MaxFileBytes \/ bytes + e.bytes > MaxTotalBytes
       IN  \/ bad /\ Fail("GitHubProvider") /\ UNCHANGED acquired
           \/ /\ ~bad
              /\ unread' = unread \ {e} /\ bytes' = bytes + e.bytes
              /\ contents' = IF e.binary THEN contents ELSE contents \cup {e}
              /\ UNCHANGED <<at, fault, sha>>
    /\ UNCHANGED request

\* The frozen snapshot and its contents are returned, bound to the commit.
Delivered ==
    at = "blobs" /\ unread = {} /\ Proceed("resolved") /\ UNCHANGED <<request, acquired>>

SourceNext ==
    \/ Resolve \/ Discovered \/ DiscoveryTimedOut \/ TokenCreated
    \/ \E refusal \in Refusals \cup {"key"} : Refused(refusal)
    \/ \E resolved \in Commits : CommitResolved(resolved)
    \/ \E truncated \in BOOLEAN : TreeListed(truncated)
    \/ BlobFetched \/ Delivered

\* The text files of a commit.
TextOf(commit) == {e \in Blobs(TreeOf[commit]) : ~e.binary}
=============================================================================
