-------------------------- MODULE CredentialVault --------------------------
(***************************************************************************)
(* The emailPassword column of a user and the Prisma middleware in front of *)
(* it: EncryptionService encrypts what create and update write and decrypts *)
(* what find queries return.  The key is derived from a master key and      *)
(* ENCRYPTION_SALT; without that setting every process draws a salt of its  *)
(* own when it starts.  Of keys only one thing matters: whether a stored    *)
(* text was encrypted under the key the running process has.                *)
(***************************************************************************)
EXTENDS Naturals, FiniteSets

CONSTANTS
  Passwords,  \* mail passwords users have
  Garbage,    \* what another key sometimes makes of a cipher text
  Keep,       \* undefined: the field is absent from the request
  Nil         \* null

ASSUME PasswordsAssumption ==
  /\ Keep # Nil /\ Garbage \notin {Nil, Keep}
  /\ {Nil, Keep, Garbage} \cap Passwords = {}

VARIABLES
  salted,     \* ENCRYPTION_SALT is set
  column,     \* emailPassword in the table
  saved,      \* history: what the user saved last, and whether since the last start
  everSaved   \* history: every password the user ever saved

vaultVars == <<salted, column, saved, everSaved>>

\* Under the derived key of this process or of one before it ("iv:text"), or
\* under the master key, without iv, from before there was a salt.  (The plain
\* texts of the seed script never were this program's.)
Forms == {"own", "other", "legacy"}
Text(form, w) == [form |-> form, text |-> w]

ASSUME NilAssumption == Nil \notin [form : Forms, text : Passwords]

VaultInit ==
  /\ salted \in BOOLEAN
  /\ column \in {Nil} \cup {Text("legacy", w) : w \in Passwords}
  /\ saved = [password |-> Nil, here |-> FALSE]
  /\ everSaved = IF column = Nil THEN {} ELSE {column.text}

\* A random IV makes every cipher text new; the model needs no IV.
Encrypt(w) == IF w = Nil THEN Nil ELSE Text("own", w)

\* Mutant of Decrypt: texts without iv are not told apart.
DecryptNoLegacy(c) ==
  IF c = Nil THEN {Nil} ELSE IF c.form = "own" THEN {c.text} ELSE {Nil, Garbage}

\* What decrypt may answer.  An empty or malformed result is an error, which
\* reads as null; the padding is not checked, so another key may yield a text.
Decrypt(c) ==
  IF c = Nil THEN {Nil}
  ELSE IF c.form \in {"own", "legacy"} THEN {c.text}
  ELSE {Nil, Garbage}

\* The password in the result of findUnique and findFirst.
FindUser == Decrypt(column)

\* Mutant of UpdateUser: an absent password is written too.
UpdateUserAbsent(w) ==
  /\ column' = Encrypt(w)
  /\ saved' = IF w = Keep THEN saved ELSE [password |-> w, here |-> TRUE]
  /\ everSaved' = IF w \in {Keep, Nil} THEN everSaved ELSE everSaved \cup {w}
  /\ UNCHANGED salted

\* prisma.user.update with emailPassword: w in its data.
UpdateUser(w) ==
  /\ column' = IF w = Keep THEN column ELSE Encrypt(w)
  /\ saved' = IF w = Keep THEN saved
              ELSE [password |-> w, here |-> TRUE]
  /\ everSaved' = IF w \in {Keep, Nil} THEN everSaved ELSE everSaved \cup {w}
  /\ UNCHANGED salted

\* What a stored text is to a process with another key.
Outdated(c) == IF c # Nil /\ c.form = "own" THEN [c EXCEPT !.form = "other"] ELSE c

\* Mutant of Boot: the configured salt is not used.
BootUnsalted ==
  /\ column' = Outdated(column)
  /\ saved' = [saved EXCEPT !.here = FALSE]
  /\ UNCHANGED <<salted, everSaved>>

\* The service is constructed anew: same key if the salt is set, else another.
Boot ==
  /\ column' = IF salted THEN column ELSE Outdated(column)
  /\ saved' = [saved EXCEPT !.here = FALSE]
  /\ UNCHANGED <<salted, everSaved>>

-----------------------------------------------------------------------------
(* Properties *)

VaultTypeOK ==
  /\ salted \in BOOLEAN
  /\ column \in {Nil} \cup [form : Forms, text : Passwords]
  /\ saved \in [password : Passwords \cup {Nil}, here : BOOLEAN]
  /\ everSaved \subseteq Passwords

\* "Two-way encryption": the password a user saved last is read back as it was,
\* by the process that stored it and, with a configured salt, after any number
\* of restarts and later updates of other settings.
PasswordKept ==
  saved.password # Nil /\ (salted \/ saved.here) => FindUser = {saved.password}
=============================================================================
