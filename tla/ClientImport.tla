---------------------------- MODULE ClientImport ----------------------------
(***************************************************************************)
(* Imports of client_master.xlsx (clients/excel_parser.py,                 *)
(* clients/import_pipeline.py, clients/service.py), by the API or the      *)
(* command line, and the vault file they write (vault/file_vault.py).  The *)
(* user name of a client is committed with the import's transaction; its   *)
(* password is in the vault at once and stays there whatever becomes of    *)
(* the transaction.  A write of the vault is a read of the whole file, a   *)
(* write of vault.tmp, which every process names alike, and a rename.      *)
(***************************************************************************)
EXTENDS Integers

CONSTANTS
  Clients,
  Imports,      \* uploads and command lines, each once, each with credentials of its own
  ApiImports,   \* those that run in the API's one process; the others have their own
  Nobody

VARIABLES
  known,    \* clients with a committed row
  user,     \* the import whose user name client_credential_refs holds
  vault,    \* the vault file: by client, the import whose password it has
  tmp,      \* vault.tmp
  holder,   \* the import that wrote a client's rows and has not committed
  imp,      \* locals of an import
  torn,     \* clients an import rolled back after their password was stored, or that
            \* two imports had in hand at a time
  clashed   \* two processes were writing the vault at a time

vars == <<known, user, vault, tmp, holder, imp, torn, clashed>>

\* An import for every client, or none.
Owners == [Clients -> Imports \cup {Nobody}]
NoOwners == [c \in Clients |-> Nobody]

\* A file is not there, just truncated, JSON that can be read, or what the writes of two
\* processes have left of theirs.
Files == [is : {"none", "empty", "whole", "mixed"}, has : Owners]
NotThere == [is |-> "none", has |-> NoOwners]
Truncated == [is |-> "empty", has |-> NoOwners]
Whole(passwords) == [is |-> "whole", has |-> passwords]

\* todo: the clients of the rows left, by row number; saw: the credential row the session
\* loaded (Nobody: none); pending: a changed credential row the session has not flushed;
\* wrote: clients whose password is stored; copy: the passwords to be written; at: the file
\* it has open, by the name the file has now.
NewImport == [pc |-> "new", todo |-> [k \in {} |-> Nobody], saw |-> Nobody, pending |-> Nobody,
              wrote |-> {}, copy |-> NoOwners, at |-> "none"]

TypeOK ==
  /\ known \subseteq Clients /\ torn \subseteq Clients /\ clashed \in BOOLEAN
  /\ user \in Owners /\ vault \in Files /\ tmp \in Files
  /\ holder \in Owners
  /\ imp \in [Imports ->
       [pc : {"new", "look", "save", "insert", "secret", "open", "write", "replace", "ref", "over"},
        todo : UNION {[K -> Clients] : K \in SUBSET (1..2)}, saw : Imports \cup {Nobody},
        pending : Clients \cup {Nobody}, wrote : SUBSET Clients,
        copy : Owners, at : {"none", "tmp", "vault", "gone"}]]

\* A vault that is not there is read as one without passwords.
Init ==
  /\ known = {} /\ torn = {} /\ clashed = FALSE
  /\ user = NoOwners /\ vault = Whole(NoOwners) /\ tmp = NotThere
  /\ holder = NoOwners /\ imp = [i \in Imports |-> NewImport]

\* Bounds: a sheet has at most two rows; its client_id column holds no UUID, so that a
\* row's client is the one its GSTIN stands for (uuid5).  user is the name of a user.
SheetRows == [client : Clients, user : Clients, is : {"complete", "faulty", "empty"}]
Sheets == UNION {[1..n -> SheetRows] : n \in 0..2}

\* ClientMasterParser.parse passes over empty rows: the numbers of the others.
Filled(sheet) == {k \in DOMAIN sheet : sheet[k].is # "empty"}

\* A GSTIN or a user name that an earlier row has.
Repeats(sheet) ==
  \E j, k \in Filled(sheet) :
    j < k /\ (sheet[j].client = sheet[k].client \/ sheet[j].user = sheet[k].user)

\* A required field that is missing, or a field with a value out of its format or range.
Faulty(sheet) == \E k \in Filled(sheet) : sheet[k].is = "faulty"

\* One error anywhere, an unknown sheet or header included, refuses the whole file.
Accepts(sheet, headed) == headed /\ ~Repeats(sheet) /\ ~Faulty(sheet)

\* _derive_client_uuid.
ClientOf(r) == r.client

\* The rows as the import takes them.
Coerced(sheet) == [k \in Filled(sheet) |-> ClientOf(sheet[k])]

\* The rows are taken in the order of the sheet.
Left(i) == DOMAIN imp[i].todo
First(i) == CHOOSE k \in Left(i) : \A m \in Left(i) : k <= m
Row(i) == imp[i].todo[First(i)]

Free(i, c) == holder[c] \in {i, Nobody}
Held(i, c) == holder' = [holder EXCEPT ![c] = i]
Step(i, pc) == imp' = [imp EXCEPT ![i].pc = pc]

\* The report of a file that is refused, or of a dry run, which ends before the write.
Report(i) ==
  /\ imp[i].pc = "new" /\ Step(i, "over")
  /\ UNCHANGED <<known, user, vault, tmp, holder, torn, clashed>>

\* An import that is no dry run, after the preview's two reads.
Parse(i, sheet, headed) ==
  /\ imp[i].pc = "new" /\ Accepts(sheet, headed)
  /\ imp' = [imp EXCEPT ![i] = [imp[i] EXCEPT !.pc = "look", !.todo = Coerced(sheet)]]
  /\ UNCHANGED <<known, user, vault, tmp, holder, torn, clashed>>

\* session.get flushes the credential row of the client before: it waits for the row's
\* writer, and an insert of a row that has appeared fails.
Flushes(i) ==
  LET p == imp[i].pending IN
  \/ p = Nobody /\ UNCHANGED holder
  \/ p # Nobody /\ Free(i, p) /\ ~(imp[i].saw = Nobody /\ user[p] # Nobody) /\ Held(i, p)

\* The next row's client: new, changed, or as it was.
Look(i) ==
  /\ imp[i].pc = "look" /\ Left(i) # {}
  /\ Flushes(i)
  /\ \E changed \in BOOLEAN :
       /\ Row(i) \notin known => changed
       /\ imp' = [imp EXCEPT ![i] = [imp[i] EXCEPT !.pending = Nobody,
                    !.pc = IF changed THEN (IF Row(i) \in known THEN "save" ELSE "insert")
                           ELSE "secret"]]
  /\ UNCHANGED <<known, user, vault, tmp, torn, clashed>>

\* The flush of the client's row, before its password is stored.
SaveClient(i) ==
  /\ imp[i].pc \in {"save", "insert"} /\ Free(i, Row(i))
  /\ ~(imp[i].pc = "insert" /\ Row(i) \in known)
  /\ Held(i, Row(i)) /\ Step(i, "secret")
  /\ UNCHANGED <<known, user, vault, tmp, torn, clashed>>

\* Two at a time: another import, not over, has stored or is about to load this client.
Overlaps(i, c) ==
  \E j \in Imports \ {i} :
    imp[j].pc # "over" /\ (c \in imp[j].wrote \/ \E k \in Left(j) : imp[j].todo[k] = c)

Writing(i) == imp[i].pc \in {"open", "write", "replace"}

\* set_secret reads the vault, if it can be read, and sets the row's password in the copy.
\* It does not await, so imports of one process take turns.
ReadVault(i) ==
  /\ imp[i].pc = "secret" /\ vault.is = "whole"
  /\ i \in ApiImports => \A j \in ApiImports : ~Writing(j)
  /\ clashed' = (clashed \/ \E j \in Imports : Writing(j))
  /\ imp' = [imp EXCEPT ![i] = [imp[i] EXCEPT !.pc = "open",
                                              !.copy = [vault.has EXCEPT ![Row(i)] = i]]]
  /\ UNCHANGED <<known, user, vault, tmp, holder, torn>>

\* vault.tmp is truncated, or there again.
OpenTmp(i) ==
  /\ imp[i].pc = "open" /\ tmp' = Truncated
  /\ imp' = [imp EXCEPT ![i] = [imp[i] EXCEPT !.pc = "write", !.at = "tmp"]]
  /\ UNCHANGED <<known, user, vault, holder, torn, clashed>>

\* A file after a write from its beginning: over what another process wrote since it was
\* truncated, the rest of that may follow, or anything in between.
Over(file, own) ==
  IF file.is = "empty" THEN {Whole(own)}
  ELSE {Whole(own), [is |-> "mixed", has |-> NoOwners]} \cup
       {Whole(both) : both \in {h \in Owners :
                        \A c \in Clients : h[c] \in {own[c], file.has[c], Nobody}}}

\* The write goes to the file that was opened, which another process may have renamed, and
\* replaced, since.
WriteTmp(i) ==
  /\ imp[i].pc = "write"
  /\ \/ imp[i].at = "tmp" /\ tmp' \in Over(tmp, imp[i].copy) /\ UNCHANGED vault
     \/ imp[i].at = "vault" /\ vault' \in Over(vault, imp[i].copy) /\ UNCHANGED tmp
     \/ imp[i].at = "gone" /\ UNCHANGED <<vault, tmp>>
  /\ imp' = [imp EXCEPT ![i] = [imp[i] EXCEPT !.pc = "replace", !.at = "none"]]
  /\ UNCHANGED <<known, user, holder, torn, clashed>>

\* By its present name, a file another process has open, after a rename of vault.tmp.
Renamed(at) == CASE at = "tmp" -> "vault" [] at = "vault" -> "gone" [] OTHER -> at

\* The password is stored.
Stores(i) ==
  /\ torn' = IF Overlaps(i, Row(i)) THEN torn \cup {Row(i)} ELSE torn
  /\ imp' = [j \in Imports |->
       IF j = i THEN [imp[i] EXCEPT !.pc = "ref", !.wrote = imp[i].wrote \cup {Row(i)}]
       ELSE [imp[j] EXCEPT !.at = Renamed(imp[j].at)]]
  /\ UNCHANGED <<known, user, holder, clashed>>

\* Mutant of Replace: an error of the vault is swallowed.
ReplaceOrNot(i) ==
  /\ imp[i].pc = "replace"
  /\ vault' \in {tmp, vault} /\ tmp' = NotThere /\ Stores(i)

\* vault.tmp becomes the vault, whoever has opened or written it last; one that another
\* process has renamed already is an error.
Replace(i) ==
  /\ imp[i].pc = "replace" /\ tmp.is # "none"
  /\ vault' = tmp /\ tmp' = NotThere /\ Stores(i)

\* The credential row is loaded after the password is stored; the user name is set.
LoadRef(i) ==
  /\ imp[i].pc = "ref"
  /\ imp' = [imp EXCEPT ![i] = [imp[i] EXCEPT !.pc = "look", !.saw = user[Row(i)],
                                              !.pending = Row(i),
                                              !.todo = [k \in Left(i) \ {First(i)} |-> imp[i].todo[k]]]]
  /\ UNCHANGED <<known, user, vault, tmp, holder, torn, clashed>>

Written(i) == {c \in Clients : holder[c] = i}

\* The commit flushes the last row first; a sheet of empty rows leaves nothing to commit.
Commit(i) ==
  LET p == imp[i].pending
      done == Written(i) \cup ({p} \ {Nobody}) IN
  /\ imp[i].pc = "look" /\ Left(i) = {}
  /\ p # Nobody => Free(i, p) /\ ~(imp[i].saw = Nobody /\ user[p] # Nobody)
  /\ known' = known \cup done
  /\ user' = [c \in Clients |-> IF c \in done THEN i ELSE user[c]]
  /\ holder' = [c \in Clients |-> IF holder[c] = i THEN Nobody ELSE holder[c]]
  /\ imp' = [imp EXCEPT ![i] = [NewImport EXCEPT !.pc = "over"]]
  /\ UNCHANGED <<vault, tmp, torn, clashed>>

\* An IntegrityError, a lost connection, a vault that cannot be read or replaced, a process
\* that ends: the session is rolled back, the passwords stay.
RollBack(i) ==
  /\ imp[i].pc \notin {"new", "over"}
  /\ holder' = [c \in Clients |-> IF holder[c] = i THEN Nobody ELSE holder[c]]
  /\ imp' = [imp EXCEPT ![i] = [NewImport EXCEPT !.pc = "over"]]
  /\ torn' = torn \cup imp[i].wrote
  /\ UNCHANGED <<known, user, vault, tmp, clashed>>

Next ==
  \E i \in Imports :
    \/ Report(i) \/ (\E sheet \in Sheets, headed \in BOOLEAN : Parse(i, sheet, headed))
    \/ Look(i) \/ SaveClient(i) \/ ReadVault(i) \/ OpenTmp(i) \/ WriteTmp(i)
    \/ Replace(i) \/ LoadRef(i) \/ Commit(i) \/ RollBack(i)

Spec == Init /\ [][Next]_vars

-----------------------------------------------------------------------------
\* Properties.

\* As long as no two processes were writing the vault at a time, it can be read, wherever an
\* import was stopped; a client with a credential row has a password in it, imports that fail
\* midway included, because the password is stored before the row is written; and the user
\* name and the password of a client that no import has in hand come from the same import,
\* unless one was rolled back or two overlapped on that client.  Two processes at a time may
\* lose every password.
CredentialsMatch ==
  ~clashed =>
    /\ vault.is = "whole"
    /\ \A c \in Clients :
         /\ user[c] # Nobody => vault.has[c] # Nobody
         /\ c \notin torn /\ (\A i \in Imports : c \notin imp[i].wrote) => vault.has[c] = user[c]
=============================================================================
