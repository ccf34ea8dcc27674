-------------------------------- MODULE Acme --------------------------------
(***************************************************************************)
(* The ACME manager of internal/acme with ACME enabled: New, Run, the load *)
(* of the certificate on disk, the daily renewal, the account files and    *)
(* the DNS-01 challenge store that the DNS server answers from, over       *)
(* failures of the CA, of file writes and of the process.                  *)
(*                                                                         *)
(* The manager is one goroutine; the steps are where it can be cut short:  *)
(* each os.WriteFile is an open that truncates and a write that completes, *)
(* so a process that ends in between leaves a torn file.  Time passes in   *)
(* days, between attempts (lego's own timeouts end an attempt well within  *)
(* a day) and while the process is down; a certificate is its serial       *)
(* number and the days it has left.                                        *)
(*                                                                         *)
(* The CA and lego's order flow are external: two authorizations, apex and *)
(* wildcard, whose tokens live under one name, each presented, validated   *)
(* over DNS and cleaned up.                                                *)
(***************************************************************************)
EXTENDS Naturals, FiniteSets, Sequences, SequencesExt

CONSTANTS
  Lifetime,        \* days a certificate of the CA is valid (90)
  SelfSignedLife,  \* days the self-signed one is (3650)
  RenewBefore,     \* renewBeforeDays (30)
  MaxOrders,       \* bound: certificates issued by the CA
  MaxEnds          \* bound: crashes and shutdowns

ASSUME AcmeAssumption ==
  /\ RenewBefore \in Nat
  /\ Lifetime \in Nat /\ Lifetime > RenewBefore
  /\ SelfSignedLife \in Nat /\ SelfSignedLife > RenewBefore
  /\ MaxOrders \in Nat
  /\ MaxEnds \in Nat

VARIABLES
  up,              \* the process is running
  ends,            \* crashes and shutdowns so far
  pc,              \* where Run is
  cert,            \* s.cert, what GetCertificate serves
  order,           \* the certificate just issued
  issued,          \* serial number of the CA's latest certificate
  certFile,        \* cert.pem
  keyFile,         \* key.pem: the serial number of the matching certificate
  accountKey,      \* account.key
  accountJSON,     \* account.json
  auth,            \* progress of the two authorizations
  txt,             \* challenge store: the values under _acme-challenge
  failures         \* history: attempts that failed since the last success

fileVars    == <<certFile, keyFile, accountKey, accountJSON>>
processVars == <<up, ends>>
orderVars   == <<auth, txt>>
vars == <<processVars, pc, cert, order, issued, fileVars, orderVars, failures>>

Auths == {"apex", "wildcard"}

\* The token has been presented and not yet cleaned up.
Awaiting == {"presented", "valid", "invalid"}
AuthState == Awaiting \cup {"new", "won", "lost"}

RunPC == {"off", "load", "user", "createUser", "register", "saveUser",
          "solve", "cert", "certOpen", "key", "keyOpen", "install", "wait"}

File == {"absent", "torn", "whole"}
Serials == 0..MaxOrders
Cert == [serial: Serials, left: Nat]

\* Serial 0 stands for "none": a file that does not load, or, in memory, the
\* self-signed certificate.
NoCert == [serial |-> 0, left |-> 0]

\* generateSelfSigned
SelfSigned == [serial |-> 0, left |-> SelfSignedLife]

NoAuth == [a \in Auths |-> "new"]

TypeOK ==
  /\ up \in BOOLEAN
  /\ ends \in 0..MaxEnds
  /\ pc \in RunPC
  /\ cert \in Cert
  /\ order \in Cert
  /\ issued \in Serials
  /\ certFile \in Cert
  /\ keyFile \in Serials
  /\ accountKey \in File
  /\ accountJSON \in File
  /\ auth \in [Auths -> AuthState]
  /\ txt \in Seq(Auths)
  /\ failures \in 0..RenewBefore

Init ==
  /\ up = FALSE
  /\ ends = 0
  /\ pc = "off"
  /\ cert = NoCert
  /\ order = NoCert
  /\ issued = 0
  /\ certFile = NoCert
  /\ keyFile = 0
  /\ accountKey = "absent"
  /\ accountJSON = "absent"
  /\ auth = NoAuth
  /\ txt = <<>>
  /\ failures = 0
-----------------------------------------------------------------------------
(* The process and the clock.                                              *)

\* New: a self-signed certificate at once; Run goes on to loadOrObtain.
Start ==
  /\ ~up
  /\ up' = TRUE
  /\ cert' = SelfSigned
  /\ pc' = "load"
  /\ UNCHANGED <<ends, order, issued, fileVars, orderVars, failures>>

\* A crash or a shutdown: only the files are left.
End ==
  /\ up
  /\ ends < MaxEnds
  /\ ends' = ends + 1
  /\ up' = FALSE
  /\ pc' = "off"
  /\ cert' = NoCert
  /\ order' = NoCert
  /\ auth' = NoAuth
  /\ txt' = <<>>
  /\ failures' = 0
  /\ UNCHANGED <<issued, fileVars>>

\* What time.Until(NotAfter) says a day later; below zero it is kept at zero,
\* where nothing tells the values apart.
Aged(c) == [c EXCEPT !.left = IF @ > 0 THEN @ - 1 ELSE 0]

\* Mutant: renewal waits until nothing is left.
NeedsRenewalLate == cert.left = 0

\* needsRenewal: whatever certificate is being served.
NeedsRenewal == cert.left < RenewBefore

\* A tick of the 24-hour ticker.
Tick ==
  /\ pc = "wait"
  /\ cert' = Aged(cert)
  /\ certFile' = Aged(certFile)
  /\ pc' = IF NeedsRenewal' THEN "user" ELSE "wait"
  /\ UNCHANGED <<processVars, order, issued, keyFile, accountKey, accountJSON,
                 orderVars, failures>>

DayWhileDown ==
  /\ ~up
  /\ certFile.left > 0
  /\ certFile' = Aged(certFile)
  /\ UNCHANGED <<processVars, pc, cert, order, issued, keyFile, accountKey,
                 accountJSON, orderVars, failures>>
-----------------------------------------------------------------------------
(* loadOrObtain.                                                           *)

\* tls.LoadX509KeyPair: both files are whole and belong together.
Loadable == certFile.serial # 0 /\ certFile.serial = keyFile

Load ==
  /\ pc = "load"
  /\ IF Loadable /\ certFile.left > RenewBefore
     THEN cert' = certFile /\ pc' = "wait"
     ELSE pc' = "user" /\ UNCHANGED cert
  /\ UNCHANGED <<processVars, order, issued, fileVars, orderVars, failures>>

\* obtain returns an error; Run logs it and goes on to wait.
Fails ==
  /\ pc' = "wait"
  /\ failures' = IF failures < RenewBefore THEN failures + 1 ELSE failures
-----------------------------------------------------------------------------
(* The account: getOrCreateUser, registerIfNeeded.                         *)

\* loadUser: account.json may be missing or unreadable.
LoadUser ==
  /\ pc = "user"
  /\ accountKey = "whole"
  /\ pc' = IF accountJSON = "whole" THEN "solve" ELSE "register"
  /\ UNCHANGED <<processVars, cert, order, issued, fileVars, orderVars, failures>>

\* Mutant: any error of loadUser makes a new account.
LoadUserFailsCreates ==
  /\ pc = "user"
  /\ accountKey' = "torn"
  /\ pc' = "createUser"
  /\ UNCHANGED <<processVars, cert, order, issued, certFile, keyFile,
                 accountJSON, orderVars, failures>>

\* account.key does not decode, reading it fails this time, or it is not there
\* and cannot be created.
LoadUserFails ==
  /\ pc = "user"
  /\ Fails
  /\ UNCHANGED <<processVars, cert, order, issued, fileVars, orderVars>>

\* There is no account.key: createUser opens the file ...
CreateUser ==
  /\ pc = "user"
  /\ accountKey = "absent"
  /\ accountKey' = "torn"
  /\ pc' = "createUser"
  /\ UNCHANGED <<processVars, cert, order, issued, certFile, keyFile,
                 accountJSON, orderVars, failures>>

\* ... and writes it.
CreateUserWrites ==
  /\ pc = "createUser"
  /\ accountKey' = "whole"
  /\ pc' = "register"
  /\ UNCHANGED <<processVars, cert, order, issued, certFile, keyFile,
                 accountJSON, orderVars, failures>>

\* The CA registers the account; saveUser opens account.json ...
Register ==
  /\ pc = "register"
  /\ \/ accountJSON' = "torn" /\ pc' = "saveUser"
     \/ UNCHANGED accountJSON /\ pc' = "solve"
  /\ UNCHANGED <<processVars, cert, order, issued, certFile, keyFile,
                 accountKey, orderVars, failures>>

\* ... and writes it; an error of either is logged only.
SaveUser ==
  /\ pc = "saveUser"
  /\ accountJSON' \in {"whole", "torn"}
  /\ pc' = "solve"
  /\ UNCHANGED <<processVars, cert, order, issued, certFile, keyFile,
                 accountKey, orderVars, failures>>
-----------------------------------------------------------------------------
(* The order and its challenges (lego, the CA, the DNS server).            *)

\* Mutant: one value per name.
SetOverwrites(values, v) == <<v>>

\* ChallengeStore.Set
Set(values, v) == Append(values, v)

\* Mutant: the value is blanked where it stands.
DeleteBlanks(values, v) ==
  [i \in 1..Len(values) |-> IF values[i] = v THEN "" ELSE values[i]]

\* ChallengeStore.Delete: the first occurrence.
Delete(values, v) == RemoveFirst(values, v)

Present(a) ==
  /\ pc = "solve"
  /\ auth[a] = "new"
  /\ auth' = [auth EXCEPT ![a] = "presented"]
  /\ txt' = Set(txt, a)
  /\ UNCHANGED <<processVars, pc, cert, order, issued, fileVars, failures>>

\* The CA asks the DNS server for the token (GetTXT) and is satisfied, or not:
\* it may also fail for reasons of its own.
Validate(a) ==
  /\ pc = "solve"
  /\ auth[a] = "presented"
  /\ \E outcome \in {"valid", "invalid"} :
       /\ outcome = "valid" => Contains(txt, a)
       /\ auth' = [auth EXCEPT ![a] = outcome]
  /\ UNCHANGED <<processVars, pc, cert, order, issued, fileVars, txt, failures>>

CleanUp(a) ==
  /\ pc = "solve"
  /\ auth[a] \in {"valid", "invalid"}
  /\ auth' = [auth EXCEPT ![a] = IF @ = "valid" THEN "won" ELSE "lost"]
  /\ txt' = Delete(txt, a)
  /\ UNCHANGED <<processVars, pc, cert, order, issued, fileVars, failures>>

\* Both are valid: the CA issues, and the pair parses.
Issue ==
  /\ pc = "solve"
  /\ \A a \in Auths : auth[a] = "won"
  /\ issued < MaxOrders
  /\ issued' = issued + 1
  /\ order' = [serial |-> issued + 1, left |-> Lifetime]
  /\ auth' = NoAuth
  /\ pc' = "cert"
  /\ UNCHANGED <<processVars, cert, fileVars, txt, failures>>

\* Any step fails after lego has cleaned up what it presented.
ObtainFails ==
  /\ pc \in {"createUser", "register", "solve"}
  /\ \A a \in Auths : auth[a] \notin Awaiting
  /\ auth' = NoAuth
  /\ Fails
  /\ UNCHANGED <<processVars, cert, order, issued, fileVars, txt>>
-----------------------------------------------------------------------------
(* requestCertificate: the files, then the swap.                           *)

CertOpen ==
  /\ pc = "cert"
  /\ certFile' = NoCert
  /\ pc' = "certOpen"
  /\ UNCHANGED <<processVars, cert, order, issued, keyFile, accountKey,
                 accountJSON, orderVars, failures>>

CertWritten ==
  /\ pc = "certOpen"
  /\ certFile' = order
  /\ pc' = "key"
  /\ UNCHANGED <<processVars, cert, order, issued, keyFile, accountKey,
                 accountJSON, orderVars, failures>>

KeyOpen ==
  /\ pc = "key"
  /\ keyFile' = 0
  /\ pc' = "keyOpen"
  /\ UNCHANGED <<processVars, cert, order, issued, certFile, accountKey,
                 accountJSON, orderVars, failures>>

KeyWritten ==
  /\ pc = "keyOpen"
  /\ keyFile' = order.serial
  /\ pc' = "install"
  /\ UNCHANGED <<processVars, cert, order, issued, certFile, accountKey,
                 accountJSON, orderVars, failures>>

\* Mutant: the error is logged and the certificate is installed all the same.
WriteFailsInstalls ==
  /\ pc \in {"cert", "certOpen", "key", "keyOpen"}
  /\ pc' = "install"
  /\ UNCHANGED <<processVars, cert, order, issued, fileVars, orderVars, failures>>

\* An open or a write fails: what is on disk stays as it is.
WriteFails ==
  /\ pc \in {"cert", "certOpen", "key", "keyOpen"}
  /\ order' = NoCert
  /\ Fails
  /\ UNCHANGED <<processVars, cert, issued, fileVars, orderVars>>

Install ==
  /\ pc = "install"
  /\ cert' = order
  /\ order' = NoCert
  /\ pc' = "wait"
  /\ failures' = 0
  /\ UNCHANGED <<processVars, issued, fileVars, orderVars>>
-----------------------------------------------------------------------------
Next ==
  \/ Start
  \/ End
  \/ Tick
  \/ DayWhileDown
  \/ Load
  \/ LoadUser
  \/ LoadUserFails
  \/ CreateUser
  \/ CreateUserWrites
  \/ Register
  \/ SaveUser
  \/ \E a \in Auths : Present(a) \/ Validate(a) \/ CleanUp(a)
  \/ Issue
  \/ ObtainFails
  \/ CertOpen
  \/ CertWritten
  \/ KeyOpen
  \/ KeyWritten
  \/ WriteFails
  \/ Install

Spec == Init /\ [][Next]_vars
-----------------------------------------------------------------------------
\* The DNS server answers with the token of every authorization that the CA may
\* be asking about, with both when both are, and with none that is over.
ChallengesExact ==
  \A a \in Auths :
    Cardinality({i \in DOMAIN txt : txt[i] = a})
      = IF auth[a] \in Awaiting THEN 1 ELSE 0

\* A certificate of the CA runs out while it is being served only if an attempt
\* to renew it has failed on every day on which it was due.
ExpiryTakesFailures ==
  cert.serial # 0 /\ cert.left = 0 => failures >= RenewBefore - 1

\* After a successful attempt the files hold, whole, the very certificate that
\* is being served, so that a restart finds it (whether it installs it depends
\* on the days that are left: see Load); a pair of files torn by a failed write
\* comes only with a failed attempt.
RestartFindsServed ==
  pc = "wait" /\ cert.serial # 0 /\ failures = 0
    => Loadable /\ certFile = cert

\* The key of the CA account is never overwritten, whatever fails to be read.
AccountKeyKept == [][accountKey = "whole" => accountKey' = "whole"]_vars
-----------------------------------------------------------------------------
\* manager.go logs "initial cert obtainment failed, will retry": the next day's
\* tick tries again to replace the self-signed certificate.
InitialFailureRetried ==
  [][Tick /\ cert.serial = 0 => pc' # "wait"]_vars
=============================================================================
