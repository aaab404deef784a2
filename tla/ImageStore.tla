------------------------------ MODULE ImageStore ------------------------------
(***************************************************************************)
(* Uploads of product images (router.py:63-88): what is refused, and the    *)
(* steps by which LocalImageStorage.save publishes the others, in a thread  *)
(* of their own (uploads.py:58-151).  Names are fresh UUIDs, so no two      *)
(* uploads meet.  Every call to the file system may fail, the clean-up      *)
(* calls too; a process that dies leaves what is on the disk.               *)
(***************************************************************************)
CONSTANTS
    Uploads,    \* upload requests
    File        \* what each one sends: size, declared type, suffix and signature

VARIABLES
    at,         \* where each upload stands
    inode,      \* what its file holds: nothing, a part or everything
    names,      \* the names its file has: "temporary", "target"
    unclean     \* a clean-up call of it failed, or its process died

store == <<at, inode, names, unclean>>

Init ==
    /\ at = [u \in Uploads |-> "idle"]
    /\ inode = [u \in Uploads |-> "none"]
    /\ names = [u \in Uploads |-> {}]
    /\ unclean = {}

\* validate_image: size, a known declared type, and a signature and a suffix that agree
\* with it (the order only decides which of the reasons is given).
Valid(file) ==
    /\ file.size = "fits"
    /\ file.declared \in {"jpeg", "png"}
    /\ file.signature = file.declared
    /\ file.suffix = file.declared

Goto(u, where) == at' = [at EXCEPT ![u] = where]
Named(u, ns) == names' = [names EXCEPT ![u] = ns]

Receive(us) ==
    /\ \A u \in us : at[u] = "idle"
    /\ at' = [u \in Uploads |->
                IF u \notin us THEN at[u] ELSE IF Valid(File[u]) THEN "open" ELSE "refused"]
    /\ UNCHANGED <<inode, names, unclean>>

\* temporary.open("xb")
Open(u) ==
    /\ at[u] = "open"
    /\ inode' = [inode EXCEPT ![u] = "empty"]
    /\ Named(u, {"temporary"})
    /\ Goto(u, "write")
    /\ UNCHANGED unclean

\* write, flush and fsync, all of it or a part; only the first goes on.
Write(u) ==
    /\ at[u] = "write"
    /\ \/ inode' = [inode EXCEPT ![u] = "whole"] /\ Goto(u, "link")
       \/ inode' = [inode EXCEPT ![u] = "part"] /\ Goto(u, "clean")
    /\ UNCHANGED <<names, unclean>>

\* os.link: the file appears under its final name at once.
Link(u) ==
    /\ at[u] = "link"
    /\ Named(u, names[u] \cup {"target"})
    /\ Goto(u, "unlink")
    /\ UNCHANGED <<inode, unclean>>

\* temporary.unlink()
Unlink(u) ==
    /\ at[u] = "unlink"
    /\ Named(u, {"target"})
    /\ Goto(u, "stored")
    /\ UNCHANGED <<inode, unclean>>

\* Mutant: what was published is not taken back.
FailUnpublished(u) ==
    /\ at[u] \in {"open", "write", "link", "unlink"}
    /\ Goto(u, "clean")
    /\ UNCHANGED <<inode, names, unclean>>

\* A step raises: a file already published is taken back first.
Fail(u) ==
    /\ at[u] \in {"open", "write", "link", "unlink"}
    /\ IF at[u] = "unlink" THEN Goto(u, "unpublish") ELSE Goto(u, "clean")
    /\ UNCHANGED <<inode, names, unclean>>

\* unlink(missing_ok) of one name; an OSError is swallowed.
Unname(u, name, next) ==
    /\ \/ Named(u, names[u] \ {name}) /\ UNCHANGED unclean
       \/ unclean' = unclean \cup {u} /\ UNCHANGED names
    /\ Goto(u, next)
    /\ UNCHANGED inode

Unpublish(u) == at[u] = "unpublish" /\ Unname(u, "target", "clean")
Clean(u) == at[u] = "clean" /\ Unname(u, "temporary", "failed")

\* The process dies in the middle of a save.
Die(u) ==
    /\ at[u] \in {"open", "write", "link", "unlink", "unpublish", "clean"}
    /\ Goto(u, "failed")
    /\ unclean' = unclean \cup {u}
    /\ UNCHANGED <<inode, names>>

Step(u) ==
    \/ Open(u) \/ Write(u) \/ Link(u) \/ Unlink(u)
    \/ Fail(u) \/ Unpublish(u) \/ Clean(u) \/ Die(u)

-----------------------------------------------------------------------------
\* What can be fetched under a final name is a whole image of the type its name tells,
\* whatever failed and wherever the process died.
PublishedWhole ==
    \A u \in Uploads : "target" \in names[u] =>
        inode[u] = "whole" /\ File[u].suffix = File[u].signature

\* An upload that was not stored leaves nothing behind, unless a clean-up failed too.
FailuresLeaveNothing ==
    \A u \in Uploads \ unclean : at[u] \in {"failed", "refused"} => names[u] = {}

\* The directory and the answers agree.
StoreHonest ==
    /\ PublishedWhole
    /\ FailuresLeaveNothing
    /\ \A u \in Uploads : at[u] = "stored" => names[u] = {"target"}
=============================================================================
