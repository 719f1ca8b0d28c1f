------------------------------ MODULE Console ------------------------------
(***************************************************************************)
(* The command line client `kr`.  Every command is a process of its own;   *)
(* what one leaves for the next is in two files of the home directory, the *)
(* token of the last login and the tenant that was selected last.  Both    *)
(* are saved by writing a temporary file and renaming it; the temporary    *)
(* names are fixed, so processes that save at the same time share them.    *)
(*                                                                         *)
(* A command is the sequence of its steps.  What the server does with a    *)
(* request about keys is modelled by KeyActions and KeyListing; here only  *)
(* the tenants are kept, which the client selects from.                    *)
(***************************************************************************)
EXTENDS Integers, Sequences, FiniteSets, Functions

CONSTANTS Process,     \* the processes of one user
          TenantId,    \* the tenants that can ever be created
          Lines,       \* how many lines the name of each takes on a terminal
          Size,        \* the length of each document that is saved
          MaxVisible,  \* maxVisibleItems
          MaxCommands  \* bound on the commands that are run

None == "none"
Typed == "typed"    \* a tenant that was given with --tenant-id

Token == {"mtls", "no-auth"}
Doc == TenantId \cup Token
File == {"state", "token"}

ASSUME ConsoleAssumption ==
    /\ TenantId \cap (Token \cup {None, Typed}) = {}
    /\ Lines \in [TenantId -> Nat \ {0}]
    /\ Size \in [Doc -> Nat \ {0}]
    /\ MaxVisible \in Nat \ {0} /\ MaxCommands \in Nat
    /\ IsFiniteSet(Process) /\ IsFiniteSet(TenantId)

VARIABLES started,   \* the number of commands that were run
          tenants,   \* the rows of the tenants table
          dir,       \* the inode each file name stands for, 0 if there is none
          data,      \* what is in each inode
          todo,      \* the steps each process has still to do
          doc,       \* the tenant or token a process works on
          asked,     \* the tenant its requests are about
          fd,        \* the inode it has open for writing, 0 if none
          rows,      \* the tenants an interactive selection shows
          cursor,    \* the highlighted line
          offset,    \* the first line that is visible
          hung,      \* the terminal is gone: no key will ever be read
          alone,     \* no other save of the file has overlapped with this one
          meant,     \* the document of the last save that was renamed
          clean      \* that save overlapped with no other

disk == <<dir, data>>
choice == <<rows, cursor, offset, hung>>
ghosts == <<alone, meant, clean>>
vars == <<started, tenants, disk, todo, doc, asked, fd, choice, ghosts>>

Name == {"state.lock", ".state.tmp", "token.json", ".tmp"}

\* One inode a name, and one for every process that writes to an unnamed one.
Inode == 1 .. Cardinality(Name) + Cardinality(Process)
Nothing == [doc |-> None, len |-> 0]

-----------------------------------------------------------------------------
(* The commands *)

Save == <<"open", "write", "rename">>

tenantOf(flagged) == IF flagged THEN <<>> ELSE <<"load">>

\* `kr get key`, `parent-keys`, `descendant-keys` and `keys` differ in the request.
getKeyCmd(flagged) == tenantOf(flagged) \o <<"connect", "GetKey">>
activateKeyCmd(flagged) == tenantOf(flagged) \o <<"connect", "ActivateKey">>
announceKeyCmd == <<"load", "connect", "AnnounceKey">>
createTenantCmd == <<"connect", "CreateTenant">>
getTenantCmd == <<"connect", "GetTenant">>
getTenantsCmd == <<"connect", "ListTenants">>
actionStatusCmd(info) == <<"connect", "GetAction">> \o info
selectTenantCmd == <<"connect", "GetTenant">> \o Save
selectTenantInteractive == <<"connect", "ListTenants", "choose">> \o Save
mtlsLoginCmd == <<"verify">> \o Save
noAuthLoginCmd == <<"check">> \o Save

\* With --target-info the keys the action is about are asked for as well.
targetInfo == {<<>>, <<"GetKey">>}

KeyRpc == {"GetKey", "ActivateKey", "AnnounceKey"}

-----------------------------------------------------------------------------
(* The files *)

file(p) == IF doc[p] \in Token THEN "token" ELSE "state"
path(f) == IF f = "state" THEN "state.lock" ELSE "token.json"

\* A faulty variant: both stores use the same temporary name.
oneTmpPath(f) == ".tmp"

tmpPath(f) == IF f = "state" THEN ".state.tmp" ELSE ".tmp"

\* What is parsed from a file: nothing when it is missing, empty or damaged.
Parsed(f) ==
    LET c == data[dir[path(f)]]
    IN  IF dir[path(f)] = 0 \/ c.doc = None \/ c.len # Size[c.doc] THEN None ELSE c.doc

InUse == Range(dir) \cup Range(fd)
NewInode == CHOOSE i \in Inode \ InUse : \A j \in Inode \ InUse : i <= j

At(p, step) == todo[p] # <<>> /\ Head(todo[p]) = step
Proceed(p) == todo' = [todo EXCEPT ![p] = Tail(@)]

\* The processes that are between their open and their rename of f.
Saving(f) == {p \in Process : (At(p, "write") \/ At(p, "rename")) /\ file(p) = f}

-----------------------------------------------------------------------------
\* The user may have logged in and selected a tenant before.
Init ==
    /\ started = 0
    /\ tenants \in SUBSET TenantId
    /\ \E t \in tenants \cup {None}, k \in Token \cup {None} :
         /\ meant = [f \in File |-> IF f = "state" THEN t ELSE k]
         /\ dir = [n \in Name |-> CASE n = path("state") /\ t # None -> 1
                                    [] n = path("token") /\ k # None -> 2
                                    [] OTHER -> 0]
         /\ data = [i \in Inode |-> CASE i = 1 /\ t # None -> [doc |-> t, len |-> Size[t]]
                                      [] i = 2 /\ k # None -> [doc |-> k, len |-> Size[k]]
                                      [] OTHER -> Nothing]
    /\ todo = [p \in Process |-> <<>>]
    /\ doc = [p \in Process |-> None] /\ asked = [p \in Process |-> None]
    /\ fd = [p \in Process |-> 0]
    /\ rows = [p \in Process |-> <<>>]
    /\ cursor = [p \in Process |-> 0] /\ offset = [p \in Process |-> 0]
    /\ hung = [p \in Process |-> FALSE]
    /\ alone = [p \in Process |-> FALSE]
    /\ clean = [f \in File |-> TRUE]

\* A process is started with a command; d is its argument.
Run(p, command, d, t) ==
    /\ todo[p] = <<>> /\ started < MaxCommands
    /\ started' = started + 1
    /\ todo' = [todo EXCEPT ![p] = command]
    /\ doc' = [doc EXCEPT ![p] = d]
    /\ asked' = [asked EXCEPT ![p] = t]
    /\ UNCHANGED <<tenants, disk, fd, choice, ghosts>>

Start(p) ==
    \/ \E c \in {getKeyCmd(TRUE), activateKeyCmd(TRUE)} : Run(p, c, None, Typed)
    \/ \E c \in {getKeyCmd(FALSE), activateKeyCmd(FALSE), announceKeyCmd} : Run(p, c, None, None)
    \/ \E c \in {createTenantCmd, getTenantsCmd, selectTenantInteractive} : Run(p, c, None, None)
    \/ \E i \in targetInfo : Run(p, actionStatusCmd(i), None, None)
    \/ \E c \in {getTenantCmd, selectTenantCmd}, t \in TenantId : Run(p, c, t, None)
    \/ Run(p, mtlsLoginCmd, "mtls", None)
    \/ Run(p, noAuthLoginCmd, "no-auth", None)

Closed(p) == [fd EXCEPT ![p] = 0]

\* What a process holds when it has ended.
Exit(p) ==
    /\ todo' = [todo EXCEPT ![p] = <<>>]
    /\ doc' = [doc EXCEPT ![p] = None] /\ asked' = [asked EXCEPT ![p] = None]
    /\ fd' = Closed(p)
    /\ rows' = [rows EXCEPT ![p] = <<>>]
    /\ cursor' = [cursor EXCEPT ![p] = 0] /\ offset' = [offset EXCEPT ![p] = 0]
    /\ hung' = [hung EXCEPT ![p] = FALSE]
    /\ alone' = [alone EXCEPT ![p] = FALSE]

\* An inode is gone when it has no name and no process has it open.
Keep(contents, names, opened) ==
    data' = [i \in Inode |-> IF i \in Range(names) \cup Range(opened) THEN contents[i] ELSE Nothing]

\* A faulty variant: what was begun is emptied, whatever its name is by then.
StopEmpties(p) ==
    /\ todo[p] # <<>>
    /\ Exit(p)
    /\ UNCHANGED <<started, tenants, dir, meant, clean>>
    /\ Keep([i \in Inode |-> IF i = fd[p] THEN Nothing ELSE data[i]], dir, Closed(p))

\* The process is killed, or a call its step makes returns an error.
Stop(p) ==
    /\ todo[p] # <<>>
    /\ Exit(p)
    /\ UNCHANGED <<started, tenants, dir, meant, clean>>
    /\ Keep(data, dir, Closed(p))

\* A step that does not touch the files goes on if ok, else the command ends.
Check(p, ok) ==
    /\ IF ok THEN Proceed(p) /\ UNCHANGED <<doc, asked, fd, choice, alone>> ELSE Exit(p)
    /\ UNCHANGED <<started, tenants, disk, meant, clean>>

-----------------------------------------------------------------------------
(* The steps *)

selectedTenantID(p) ==
    /\ At(p, "load")
    /\ IF Parsed("state") = None
         THEN Exit(p)
         ELSE /\ asked' = [asked EXCEPT ![p] = Parsed("state")]
              /\ Proceed(p) /\ UNCHANGED <<doc, fd, choice, alone>>
    /\ UNCHANGED <<started, tenants, disk, meant, clean>>

\* Whether the certificate, the key and the CA that are on the disk verify now:
\* they are replaced and expire as they please.
verifyCertChain == BOOLEAN

\* MTLS.Validate looks at the certificates again, NoOp.Validate at the type.
Validity(token) ==
    CASE token = "mtls" -> verifyCertChain
      [] token = "no-auth" -> {TRUE}
      [] OTHER -> {FALSE}

newConnection(p) == At(p, "connect") /\ \E ok \in Validity(Parsed("token")) : Check(p, ok)

\* MTLS.Verify
Verify(p) == At(p, "verify") /\ \E ok \in verifyCertChain : Check(p, ok)

\* noAuthLoginCmd: a file that cannot be parsed is an error, a token that is
\* valid already is left alone.
CheckToken(p) ==
    /\ At(p, "check")
    /\ Check(p, dir["token.json"] = 0 \/ Parsed("token") = "mtls")

\* A request about a key is answered, with whatever result.
CallKeyService(p) == /\ \E rpc \in KeyRpc : At(p, rpc)
                     /\ Check(p, TRUE)

\* The insert takes effect under a new id, or fails.
CreateTenant(p) ==
    /\ At(p, "CreateTenant")
    /\ \/ Check(p, FALSE)
       \/ /\ \E t \in TenantId \ tenants : tenants' = tenants \cup {t}
          /\ Proceed(p)
          /\ UNCHANGED <<started, disk, doc, asked, fd, choice, ghosts>>

\* A faulty variant: that there is no such tenant is overlooked.
GetAnyTenant(p) == At(p, "GetTenant") /\ Check(p, TRUE)

GetTenant(p) == At(p, "GetTenant") /\ Check(p, doc[p] \in tenants)

\* The table in whatever order it is read; none to choose from is an error.
ListTenants(p) ==
    /\ At(p, "ListTenants")
    /\ IF Len(todo[p]) = 1 THEN Check(p, TRUE)
       ELSE IF tenants = {} THEN Check(p, FALSE)
       ELSE /\ \E r \in Bijection(1 .. Cardinality(tenants), tenants) :
                 rows' = [rows EXCEPT ![p] = r]
            /\ Proceed(p)
            /\ UNCHANGED <<started, tenants, disk, doc, asked, fd, cursor, offset, hung, ghosts>>

\* Only announcements are found; the target is parsed from a label of the job.
GetAction(p) ==
    /\ At(p, "GetAction")
    /\ \/ Check(p, FALSE)
       \/ /\ \E t \in tenants : asked' = [asked EXCEPT ![p] = t]
          /\ Proceed(p)
          /\ UNCHANGED <<started, tenants, disk, doc, fd, choice, ghosts>>

-----------------------------------------------------------------------------
(* The interactive selection *)

\* The lines on the terminal, each with the tenant it belongs to, as the rows are
\* printed one after the other.
renderRows(r) ==
    LET printed[i \in 0 .. Len(r)] ==
          IF i = 0 THEN <<>> ELSE printed[i - 1] \o [j \in 1 .. Lines[r[i]] |-> r[i]]
    IN  printed[Len(r)]

items(p) == renderRows(rows[p])

viewHeight(p) == IF Len(rows[p]) < MaxVisible THEN Len(rows[p]) ELSE MaxVisible

Pressed(p) == At(p, "choose") /\ ~hung[p]

moveUp(p) ==
    /\ Pressed(p) /\ cursor[p] > 0
    /\ cursor' = [cursor EXCEPT ![p] = @ - 1]
    /\ offset' = [offset EXCEPT ![p] = IF cursor'[p] < @ THEN cursor'[p] ELSE @]
    /\ UNCHANGED <<started, tenants, disk, todo, doc, asked, fd, rows, hung, ghosts>>

\* A faulty variant: the window moves one line too late.
moveDownLate(p) ==
    /\ Pressed(p) /\ cursor[p] < Len(items(p)) - 1
    /\ cursor' = [cursor EXCEPT ![p] = @ + 1]
    /\ offset' = [offset EXCEPT ![p] =
                    IF cursor'[p] > @ + viewHeight(p) THEN cursor'[p] - viewHeight(p) + 1 ELSE @]
    /\ UNCHANGED <<started, tenants, disk, todo, doc, asked, fd, rows, hung, ghosts>>

moveDown(p) ==
    /\ Pressed(p) /\ cursor[p] < Len(items(p)) - 1
    /\ cursor' = [cursor EXCEPT ![p] = @ + 1]
    /\ offset' = [offset EXCEPT ![p] =
                    IF cursor'[p] >= @ + viewHeight(p) THEN cursor'[p] - viewHeight(p) + 1 ELSE @]
    /\ UNCHANGED <<started, tenants, disk, todo, doc, asked, fd, rows, hung, ghosts>>

\* The selection has returned the index of a tenant.
Chosen(p, idx) ==
    /\ doc' = [doc EXCEPT ![p] = rows[p][idx]]
    /\ Proceed(p)
    /\ UNCHANGED <<asked, fd, choice, alone>>

\* A faulty variant: the index is the one in the window.
EnterInWindow(p) ==
    /\ Pressed(p)
    /\ Chosen(p, cursor[p] - offset[p] + 1)
    /\ UNCHANGED <<started, tenants, disk, meant, clean>>

\* The index of the line is used for the list of tenants, and may be too large.
Enter(p) ==
    /\ Pressed(p)
    /\ IF cursor[p] < Len(rows[p]) THEN Chosen(p, cursor[p] + 1) ELSE Exit(p)
    /\ UNCHANGED <<started, tenants, disk, meant, clean>>

Escape(p) == Pressed(p) /\ Check(p, FALSE)

\* readKey does not tell the end of the input from a key it does not know.
HangUp(p) ==
    /\ Pressed(p)
    /\ hung' = [hung EXCEPT ![p] = TRUE]
    /\ cursor' = [cursor EXCEPT ![p] = 0] /\ offset' = [offset EXCEPT ![p] = 0]
    /\ UNCHANGED <<started, tenants, disk, todo, doc, asked, fd, rows, ghosts>>

-----------------------------------------------------------------------------
(* Save and Store *)

\* os.WriteFile opens the temporary file, new or empty again ...
Open(p) ==
    LET f == file(p)
        i == IF dir[tmpPath(f)] = 0 THEN NewInode ELSE dir[tmpPath(f)]
    IN  /\ At(p, "open")
        /\ dir' = [dir EXCEPT ![tmpPath(f)] = i]
        /\ fd' = [fd EXCEPT ![p] = i]
        /\ data' = [data EXCEPT ![i] = Nothing]
        /\ alone' = [q \in Process |-> IF q = p THEN Saving(f) = {} ELSE alone[q] /\ q \notin Saving(f)]
        /\ Proceed(p)
        /\ UNCHANGED <<started, tenants, doc, asked, choice, meant, clean>>

\* ... and writes from its start; what was longer there keeps its end.
Write(p) ==
    /\ At(p, "write")
    /\ fd' = Closed(p)
    /\ LET old == data[fd[p]].len  new == Size[doc[p]]
       IN  Keep([data EXCEPT ![fd[p]] = [doc |-> doc[p], len |-> IF old > new THEN old ELSE new]],
                dir, Closed(p))
    /\ Proceed(p)
    /\ UNCHANGED <<started, tenants, dir, doc, asked, choice, ghosts>>

\* The file with the temporary name takes the place of the one that was saved.
Renamed(p, f) ==
    /\ dir' = [dir EXCEPT ![path(f)] = dir[tmpPath(f)], ![tmpPath(f)] = 0]
    /\ Keep(data, [dir EXCEPT ![path(f)] = dir[tmpPath(f)], ![tmpPath(f)] = 0], Closed(p))
    /\ meant' = [meant EXCEPT ![f] = doc[p]]
    /\ clean' = [clean EXCEPT ![f] = alone[p]]

\* os.Rename takes whatever has the temporary name, and fails if nothing has.
Rename(p) ==
    /\ At(p, "rename")
    /\ IF dir[tmpPath(file(p))] = 0 THEN UNCHANGED <<disk, meant, clean>> ELSE Renamed(p, file(p))
    /\ Exit(p)
    /\ UNCHANGED <<started, tenants>>

-----------------------------------------------------------------------------
\* What a process does without its user.
Step(p) ==
    \/ selectedTenantID(p) \/ newConnection(p) \/ Verify(p) \/ CheckToken(p)
    \/ CallKeyService(p) \/ CreateTenant(p) \/ GetTenant(p) \/ ListTenants(p) \/ GetAction(p)
    \/ Open(p) \/ Write(p) \/ Rename(p)

Next ==
    \E p \in Process : \/ Start(p) \/ Step(p) \/ Stop(p)
                       \/ moveUp(p) \/ moveDown(p) \/ Enter(p) \/ Escape(p) \/ HangUp(p)

Spec == Init /\ [][Next]_vars

-----------------------------------------------------------------------------
(* Properties *)

\* What a command is made of.
StepName ==
    KeyRpc \cup {"load", "connect", "verify", "check", "CreateTenant", "GetTenant", "ListTenants",
                 "GetAction", "choose", "open", "write", "rename"}

\* The type invariant: what the tables, the files and the processes hold.
TypeOK ==
    /\ tenants \subseteq TenantId
    /\ dir \in [Name -> Inode \cup {0}]
    /\ data \in [Inode -> [doc : Doc \cup {None}, len : Nat]]
    /\ todo \in [Process -> Seq(StepName)] /\ rows \in [Process -> Seq(tenants)]
    /\ doc \in [Process -> Doc \cup {None}]
    /\ asked \in [Process -> TenantId \cup {None, Typed}]
    /\ fd \in [Process -> Inode \cup {0}]
    /\ cursor \in [Process -> Nat] /\ offset \in [Process -> Nat]
    /\ hung \in [Process -> BOOLEAN] /\ alone \in [Process -> BOOLEAN]
    /\ meant \in [File -> Doc \cup {None}] /\ clean \in [File -> BOOLEAN]

\* "Write to a temporary file first, then rename for atomicity": a file whose
\* last save did not overlap with another save of the same file holds all of
\* what was saved and nothing else, wherever processes are killed, whatever an
\* earlier one left in the temporary file, and although `kr login` and
\* `kr select` save into the same directory at the same time.
FileIsWhole == \A f \in File : clean[f] => Parsed(f) = meant[f]

\* However saves overlap, the tenant that commands find selected is one that
\* exists, and so is the one every request about keys names unless the user
\* typed another: the two halves of two documents are never taken for one.
SelectedExists ==
    /\ Parsed("state") \in tenants \cup {None}
    /\ \A p \in Process :
         (\E rpc \in KeyRpc : At(p, rpc)) => asked[p] \in tenants \cup {Typed}

\* The line that is highlighted is always within the lines that are visible,
\* however the window is moved and also when names take several lines.
WindowHoldsCursor ==
    \A p \in Process : At(p, "choose") =>
        /\ offset[p] <= cursor[p] /\ cursor[p] < offset[p] + viewHeight(p)
        /\ offset[p] + viewHeight(p) <= Len(items(p))

\* What `kr select tenant -i` saves is the tenant whose line is highlighted when
\* Enter is pressed, in whatever order the tenants were listed, as long as no
\* name above it has a line break.
HighlightedIsSaved ==
    \A p \in Process :
        rows[p] # <<>> /\ ~At(p, "choose") /\ (\A i \in 1 .. cursor[p] : Lines[rows[p][i]] = 1)
          => doc[p] = items(p)[cursor[p] + 1]

\* What commands find in a file changes only when a process that saves this file
\* renames, never while one writes, is killed or saves the other file: a command
\* that loads it meanwhile finds the document of an earlier save.  The exception
\* is a process whose temporary file another one has renamed before it was
\* written: its write goes into the file itself.
FileChangesAtRename ==
    [][\A f \in File : Parsed(f)' # Parsed(f) =>
         \E p \in Process : /\ At(p, "rename") \/ (At(p, "write") /\ ~alone[p])
                            /\ file(p) = f /\ todo'[p] = Tail(todo[p])]_vars

=============================================================================
