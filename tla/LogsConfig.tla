----------------------------- MODULE LogsConfig -----------------------------
(***************************************************************************)
(* The logs configuration of the store as the bindings in                  *)
(* hs_logconfigtypes.cpp use it: a tree of directories and log groups.     *)
(* A stream is a directory right below its root and a partition a log      *)
(* group in it that holds one log; the ids allocated for checkpoint stores *)
(* are log groups too (Stream.hs).  The tree itself is kept by LogDevice,  *)
(* an external service: what an operation does to it is taken from how the *)
(* callers use it and from the error codes they handle.                    *)
(***************************************************************************)
EXTENDS Integers, Sequences

\* A tree: the extra attributes of each directory, the log id of each log group
\* (a group is named by its directory and its key).
EmptyTree == [dirs |-> <<>>, logs |-> <<>>]

without(f, S) == [x \in DOMAIN f \ S |-> f[x]]
with(f, x, v) == [y \in DOMAIN f \cup {x} |-> IF y = x THEN v ELSE f[y]]
image(f) == {f[x] : x \in DOMAIN f}

\* The groups of a directory.
groupsIn(tree, dir) == {path \in DOMAIN tree.logs : path[1] = dir}

\* The facts a reader of the tree can learn: <<path, log id>>, id 0 for a directory.
facts(tree) ==
  {<<path, tree.logs[path]>> : path \in DOMAIN tree.logs}
  \cup {<<<<dir>>, 0>> : dir \in DOMAIN tree.dirs}

\* An operation answers with a status, what was asked for, and the tree after it.
refuse(st, tree) == [st |-> st, value |-> 0, tree |-> tree]
accept(value, tree) == [st |-> "OK", value |-> value, tree |-> tree]

-----------------------------------------------------------------------------
\* External: LogDevice's operations.

makeDirectory(tree, m) ==
  IF m.dir \in DOMAIN tree.dirs
  THEN refuse("EXISTS", tree)
  ELSE accept(0, [tree EXCEPT !.dirs = with(@, m.dir, m.extras)])

removeDirectory(tree, m) ==
  IF m.dir \notin DOMAIN tree.dirs
  THEN refuse("NOTFOUND", tree)
  ELSE IF groupsIn(tree, m.dir) # {} /\ ~m.recursive
  THEN refuse("NOTEMPTY", tree)
  ELSE accept(0, [dirs |-> without(tree.dirs, {m.dir}),
                  logs |-> without(tree.logs, groupsIn(tree, m.dir))])

getDirectory(tree, m) ==
  IF m.dir \in DOMAIN tree.dirs
  THEN accept(tree.dirs[m.dir], tree)
  ELSE refuse("NOTFOUND", tree)

rename(tree, m) ==
  IF m.dir \notin DOMAIN tree.dirs
  THEN refuse("NOTFOUND", tree)
  ELSE IF m.to \in DOMAIN tree.dirs
  THEN refuse("EXISTS", tree)
  ELSE LET moved(path) == IF path[1] = m.to THEN <<m.dir, path[2]>> ELSE path
           paths == {IF path[1] = m.dir THEN <<m.to, path[2]>> ELSE path
                       : path \in DOMAIN tree.logs}
       IN  accept(0, [dirs |-> with(without(tree.dirs, {m.dir}), m.to, tree.dirs[m.dir]),
                      logs |-> [path \in paths |-> tree.logs[moved(path)]]])

setAttributes(tree, m) ==
  IF m.dir \notin DOMAIN tree.dirs
  THEN refuse("NOTFOUND", tree)
  ELSE accept(0, [tree EXCEPT !.dirs[m.dir] = m.extras])

makeLogGroup(tree, m) ==
  IF m.path \in DOMAIN tree.logs
  THEN refuse("EXISTS", tree)
  ELSE IF m.path[1] \notin DOMAIN tree.dirs /\ ~m.mkdirs
  THEN refuse("NOTFOUND", tree)
  ELSE IF m.id \in image(tree.logs)
  THEN refuse("ID_CLASH", tree)
  ELSE accept(m.id,
              [dirs |-> IF m.path[1] \in DOMAIN tree.dirs
                        THEN tree.dirs ELSE with(tree.dirs, m.path[1], {}),
               logs |-> with(tree.logs, m.path, m.id)])

removeLogGroup(tree, m) ==
  IF m.path \notin DOMAIN tree.logs
  THEN refuse("NOTFOUND", tree)
  ELSE accept(0, [tree EXCEPT !.logs = without(@, {m.path})])

getLogGroup(tree, m) ==
  IF m.path \in DOMAIN tree.logs
  THEN accept(tree.logs[m.path], tree)
  ELSE refuse("NOTFOUND", tree)

getLogGroupById(tree, m) ==
  IF m.id \in image(tree.logs)
  THEN accept(CHOOSE path \in DOMAIN tree.logs : tree.logs[path] = m.id, tree)
  ELSE refuse("NOTFOUND", tree)

-----------------------------------------------------------------------------
\* The bindings: the request each one posts.  Its callback copies the status and the
\* value (or the version) to the caller's buffer and fills the MVar.

ld_client_make_directory(dir, extras) ==
  [fn |-> "makeDirectory", dir |-> dir, extras |-> extras]
ld_client_remove_directory(dir, recursive) ==
  [fn |-> "removeDirectory", dir |-> dir, recursive |-> recursive]
ld_client_get_directory(dir) == [fn |-> "getDirectory", dir |-> dir]
ld_client_rename(from, to) == [fn |-> "rename", dir |-> from, to |-> to]
ld_client_set_attributes(dir, extras) ==
  [fn |-> "setAttributes", dir |-> dir, extras |-> extras]
ld_client_make_loggroup(path, id, mkdirs) ==
  [fn |-> "makeLogGroup", path |-> path, id |-> id, mkdirs |-> mkdirs]
ld_client_remove_loggroup(path) == [fn |-> "removeLogGroup", path |-> path]
ld_client_get_loggroup(path) == [fn |-> "getLogGroup", path |-> path]
ld_client_get_loggroup_by_id(id) == [fn |-> "getLogGroupById", id |-> id]

\* The requests that read, and so are answered from what the client knows.
isRead(m) == m.fn \in {"getDirectory", "getLogGroup", "getLogGroupById"}

answer(tree, m) ==
  CASE m.fn = "makeDirectory" -> makeDirectory(tree, m)
    [] m.fn = "removeDirectory" -> removeDirectory(tree, m)
    [] m.fn = "getDirectory" -> getDirectory(tree, m)
    [] m.fn = "rename" -> rename(tree, m)
    [] m.fn = "setAttributes" -> setAttributes(tree, m)
    [] m.fn = "makeLogGroup" -> makeLogGroup(tree, m)
    [] m.fn = "removeLogGroup" -> removeLogGroup(tree, m)
    [] m.fn = "getLogGroup" -> getLogGroup(tree, m)
    [] m.fn = "getLogGroupById" -> getLogGroupById(tree, m)
=============================================================================
