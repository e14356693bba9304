------------------------------ MODULE MCServices ------------------------------
(* The services that share no variable, for one run of TLC: a behaviour moves    *)
(* one of them (moves) and leaves the others at their start, so that what is     *)
(* explored is the sum of their states and not the product.                      *)
EXTENDS Checkout, TLC

CONSTANTS t1, t2, k1, k2, r1, r2, r3, r4,
          Foreign, Nobody,
          Applicants, Payload, a1, a2, a3,     \* Registration
          Managers, Workers,                   \* Provisioning
          Browsers, Recoveries, Resets, Forms, e2, s2, LastVersion,   \* Sessions
          Attempts,                            \* Fiscal
          Validations, Revocations,            \* PaymentConnections
          Deliveries,                          \* WebhookInbox
          Dashboards, DashboardKey, CacheSize, LastWrite, Local,   \* PerformanceCache
          Cancels, Changes, Target, p1, p2, monthly, yearly, LastRenewal,   \* SubscriptionOps
          Refunders, Earlier,                  \* Refunds
          Jobs, PrintAttempts,                 \* PrintQueue
          Posts, Printouts, MaxCarts, MaxKeys, MaxPrints,                \* CashRegister
          CertUploads, Checks, Withdrawals, Activations, Old, CleanupAttempts,
          u1, u2, check, removal, activation,   \* Certificates
          Scale, Prices, Payloads, Others, Percentages, Fixed, Notes,
          Stock, MaxScans                      \* SaleAmounts

VARIABLES moves,
          registration, accounts, identity, registrationCalls, registrationAnswer,
          registrationStep, held, auth, fresh,
          row, profile, account, calls, answer, at, candidate, overtaken, strayed,
          version, jwt, userSession, login, carried, token, mail, reset, change,
          document, nextNumber, send, asked,
          data, announced, entries, generation, flights, value, floor, reader,
          connection, validating, revoking, withProvider,
          event, delivery, settled,
          subscription, expected, cancelRow, changeState, cancel, planChange, confirming, remote,
          refundIntent, refunding, charge, ledger, sent,
          printQueue, disk, loaded, unsaved, printing, again, timers, watched, paper,
          cart, checkoutKey, lastSale, busy, post, sale, tillPrint, printKey, late, issued,
          receiptJob, used, till,
          config, bucket, cleanupJob, executed, office, cleaner, confirmed, astray, unheard,
          price, admin, basket, discount, request, registered

registrationVars == <<registration, accounts, identity, registrationCalls, registrationAnswer,
                      registrationStep, held, auth, fresh>>
provisioningVars == <<row, profile, account, calls, answer, at, candidate, overtaken, strayed>>
sessionVars == <<version, jwt, userSession, login, carried, token, mail, reset, change>>
fiscalVars == <<document, nextNumber, send, asked>>
cacheVars == <<data, announced, entries, generation, flights, value, floor, reader>>
connectionVars == <<connection, validating, revoking, withProvider>>
webhookVars == <<event, delivery, settled>>
opsVars == <<subscription, expected, cancelRow, changeState, cancel, planChange, confirming, remote>>
refundVars == <<refundIntent, refunding, charge, ledger, sent>>
printVars == <<printQueue, disk, loaded, unsaved, printing, again, timers, watched, paper>>
tillVars == <<cart, checkoutKey, lastSale, busy, post, sale, tillPrint, printKey, late, issued,
              receiptJob, used, till>>
certificateVars ==
  <<config, bucket, cleanupJob, executed, office, cleaner, confirmed, astray, unheard>>
amountVars == <<price, admin, basket, discount, request, registered>>

MCKeyOf == r1 :> k1 @@ r2 :> k1 @@ r3 :> k1 @@ r4 :> k2
MCTenantOf == k1 :> t1 @@ k2 :> t1
MCPayload == a1 :> "A" @@ a2 :> "A" @@ a3 :> "B"
MCDashboardKey == <<"k1", "k1", "k2">>
MCTarget == p1 :> yearly @@ p2 :> monthly

R == INSTANCE Registration WITH Requests <- Applicants, intent <- registration,
       calls <- registrationCalls, answer <- registrationAnswer, step <- registrationStep
P == INSTANCE Provisioning
S == INSTANCE Sessions WITH Changes <- Forms, MaxVersion <- LastVersion, session <- userSession
F == INSTANCE Fiscal
C == INSTANCE PerformanceCache WITH Readers <- Dashboards, KeyOf <- DashboardKey,
       MaxEntries <- CacheSize, MaxVersion <- LastWrite
PC == INSTANCE PaymentConnections
W == INSTANCE WebhookInbox WITH NoOne <- Nobody
O == INSTANCE SubscriptionOps WITH FirstPlan <- monthly, MaxVersion <- LastRenewal,
       NoOne <- Nobody, change <- planChange
M == INSTANCE Refunds
Q == INSTANCE PrintQueue WITH MaxAttempts <- PrintAttempts, queue <- printQueue, at <- printing
T == INSTANCE CashRegister WITH Kinds <- Printouts, None <- Nobody,
       printing <- tillPrint, job <- receiptJob, history <- till
A == INSTANCE Certificates WITH Uploads <- CertUploads, Validations <- Checks,
       Removals <- Withdrawals, MaxAttempts <- CleanupAttempts, None <- Nobody, job <- cleanupJob
B == INSTANCE SaleAmounts WITH cart <- basket, post <- request, lastSale <- registered

(* A manager is no worker, and no identity of another origin.                    *)
ASSUME ProvisioningAssumption ==
  Managers \cap Workers = {} /\ Foreign \notin Managers /\ Nobody \notin Managers \cup {Foreign}

(* maxEntries is at least one.                                                   *)
ASSUME CacheAssumption == CacheSize \in Nat \ {0} /\ LastWrite \in Nat

(* The object there was before is of no upload.                                  *)
ASSUME CertificateAssumption ==
  /\ Old \notin CertUploads /\ Nobody \notin CertUploads \cup {Old} /\ CleanupAttempts \in Nat

(* Cents, quantities and percentages are numbers, and a unit has parts.           *)
ASSUME AmountAssumption ==
  /\ Scale \in Nat \ {0} /\ Stock \in Nat /\ MaxScans \in Nat
  /\ Prices \cup Payloads \cup Others \cup Percentages \cup Fixed \cup Notes \subseteq Nat

(* The bounds of the till are numbers, and a post is neither nobody nor a print. *)
ASSUME TillAssumption ==
  MaxKeys \in Nat /\ MaxPrints \in Nat /\ Nobody \notin Posts /\ "print" \notin Posts

(* A campaign with several tenants, without their checkouts; the checkouts of    *)
(* one tenant under two keys, while the campaign runs and keeps its capacity;    *)
(* and three requests under one key, with a reservation that stays.              *)
CampaignNext == PromotionNext /\ UNCHANGED checkoutVars
OneTenantNext ==
  /\ Next /\ campaign.status = "ACTIVE"
  /\ slot'[t2] = slot[t2] /\ \A it \in reserving' : it[1] = t1
  /\ campaign'.max = campaign.max /\ ~campaign'.ended /\ ~activating'
TwoKeysNext == OneTenantNext /\ step'[r3] = step[r3]
TakeoverNext ==
  OneTenantNext /\ step'[r4] = step[r4]
  /\ ~slot'[t1].expired /\ slot'[t1].status # "RELEASED"

(* The password with two recoveries at once and nobody logged in; and with one   *)
(* recovery, while a browser logs in, refreshes and logs out.                    *)
PasswordsNext == S!Next /\ login' = login
OneRecoveryNext == S!Next /\ mail'[e2] = mail[e2] /\ reset'[s2] = reset[s2]

(* The till that sells, with the answers and prints it waits for; and the till   *)
(* that prints, with one post at a time and one method of payment for each cart. *)
SellingNext == T!Next /\ late' = late /\ issued' = issued
PrintingNext ==
  T!Next /\ post'[r2] = post[r2] /\ (busy' # r1 => post'[r1].at = "none")
  /\ till'.changed = {} /\ used'.carts <= used'.keys + 1

(* The certificate while production stays as it is: two uploads, a validation    *)
(* and a removal of which two at most are under way, without the worker; one     *)
(* upload and a removal with the worker; and all that changes the status, with   *)
(* one upload and one validation.                                                *)
TestsNext ==
  /\ A!Next /\ config'.production = config.production /\ config'.status # "suspenso"
  /\ office'[activation] = office[activation]
ExchangeNext ==
  /\ TestsNext /\ cleaner' = cleaner
  /\ \E r \in {u2, check, removal} : \A s \in {u2, check, removal} \ {r} : office'[s].at = "idle"
CleanupNext == TestsNext /\ office'[u2] = office[u2] /\ office'[check] = office[check]
StatusNext == A!Next /\ office'[u2] = office[u2] /\ cleaner' = cleaner /\ ~executed'

MCInit ==
  /\ moves \in {"campaign", "checkout", "takeover", "registration", "provisioning",
                "passwords", "sessions", "fiscal", "cache", "connection", "webhook",
                "subscription", "refund", "print", "selling", "receipts",
                "exchange", "cleanup", "status", "amounts"}
  /\ Init /\ R!Init /\ P!Init /\ S!Init /\ F!Init /\ C!Init /\ PC!Init /\ W!Init /\ O!Init
  /\ M!Init /\ Q!Init /\ T!Init /\ A!Init /\ B!Init
  /\ moves # "campaign" => campaign.status = "ACTIVE" /\ campaign.max = MaxSlots
  /\ moves # "registration" => identity = Nobody
  /\ moves # "provisioning" => account = Nobody
  /\ moves # "fiscal" => document.real
  /\ moves # "webhook" => event.kind = "payment"
  /\ moves # "refund" => refundIntent.state = "none"
  /\ moves \notin {"exchange", "cleanup", "status"} => config.path = Old
  /\ moves # "amounts" => price = 7 /\ admin

(* The step is one of the service m: the others stay as they are.                *)
Moves(m) ==
  /\ moves = m /\ moves' = moves
  /\ IF m \in {"campaign", "checkout", "takeover"} THEN TRUE ELSE UNCHANGED cvars
  /\ IF m = "registration" THEN TRUE ELSE UNCHANGED registrationVars
  /\ IF m = "provisioning" THEN TRUE ELSE UNCHANGED provisioningVars
  /\ IF m \in {"passwords", "sessions"} THEN TRUE ELSE UNCHANGED sessionVars
  /\ IF m = "fiscal" THEN TRUE ELSE UNCHANGED fiscalVars
  /\ IF m = "cache" THEN TRUE ELSE UNCHANGED cacheVars
  /\ IF m = "connection" THEN TRUE ELSE UNCHANGED connectionVars
  /\ IF m = "webhook" THEN TRUE ELSE UNCHANGED webhookVars
  /\ IF m = "subscription" THEN TRUE ELSE UNCHANGED opsVars
  /\ IF m = "refund" THEN TRUE ELSE UNCHANGED refundVars
  /\ IF m = "print" THEN TRUE ELSE UNCHANGED printVars
  /\ IF m \in {"selling", "receipts"} THEN TRUE ELSE UNCHANGED tillVars
  /\ IF m \in {"exchange", "cleanup", "status"} THEN TRUE ELSE UNCHANGED certificateVars
  /\ IF m = "amounts" THEN TRUE ELSE UNCHANGED amountVars

MCNext ==
  \/ Moves("campaign") /\ CampaignNext
  \/ Moves("checkout") /\ TwoKeysNext
  \/ Moves("takeover") /\ TakeoverNext
  \/ Moves("registration") /\ R!Next
  \/ Moves("provisioning") /\ P!Next
  \/ Moves("passwords") /\ PasswordsNext
  \/ Moves("sessions") /\ OneRecoveryNext
  \/ Moves("fiscal") /\ F!Next
  \/ Moves("cache") /\ C!Next
  \/ Moves("connection") /\ PC!Next
  \/ Moves("webhook") /\ W!Next
  \/ Moves("subscription") /\ O!Next
  \/ Moves("refund") /\ M!Next
  \/ Moves("print") /\ Q!Next
  \/ Moves("selling") /\ SellingNext
  \/ Moves("receipts") /\ PrintingNext
  \/ Moves("exchange") /\ ExchangeNext
  \/ Moves("cleanup") /\ CleanupNext
  \/ Moves("status") /\ StatusNext
  \/ Moves("amounts") /\ B!Next
MCSpec ==
  MCInit /\ [][MCNext]_<<moves, cvars, registrationVars, provisioningVars, sessionVars,
                         fiscalVars, cacheVars, connectionVars, webhookVars, opsVars,
                         refundVars, printVars, tillVars, certificateVars, amountVars>>

(* The properties of the services, which their modules state and explain.        *)
OneCompany == R!OneCompany
RowIsTrue == P!RowIsTrue
ResetOncePerVersion == S!ResetOncePerVersion
RevocationHolds == S!RevocationHolds
OneInDoubt == F!OneInDoubt
NeverStale == C!NeverStale
CredentialsReadable == PC!CredentialsReadable
SettledOnce == W!SettledOnce
MutationsApart == O!MutationsApart
OneRefund == M!OneRefund
NoBlindReprint == Q!NoBlindReprint
SoldOnce == T!SoldOnce
CopiesAsked == T!CopiesAsked
BucketAgrees == A!BucketAgrees
AmountsAgree == B!AmountsAgree
=============================================================================
