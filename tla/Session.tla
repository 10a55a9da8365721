------------------------------ MODULE Session ------------------------------
(***************************************************************************)
(* The host's session engine (host/updater-core/src/session.rs): a job is  *)
(* a call of Session::flash or Session::boot, that is a series of          *)
(* exchanges, each of which re-sends its identical request until a reply   *)
(* validates or the retry budget is spent.  The command line tool asks for *)
(* INFO once more before it calls flash, to size the image; that exchange  *)
(* is left out.  The transport is left to the module that composes the     *)
(* session with a device.                                                  *)
(***************************************************************************)
EXTENDS Image

CONSTANTS
    RetryBudget,   \* RETRY_BUDGET: re-sends after the first attempt
    Codes,         \* the binaries an operator may flash
    MaxJobs        \* bound on the jobs of a behaviour

ASSUME CodesAssumption == \A c \in Codes : c \in Seq(Word) /\ Crc(c) \in Word
ASSUME BudgetAssumption == RetryBudget \in Nat /\ MaxJobs \in Nat

VARIABLES
    job,         \* "none", "flash" or "boot"
    code,        \* the binary being flashed
    ask,         \* the exchange in progress: its command
    page,        \* the page pages() has yielded, for a WRITE
    attempt,     \* re-sends made in this exchange
    hpc,         \* "idle", "send", "wait", "ok", "failed"
    error,       \* what a failed job reported
    compatible,  \* the device speaks PROTO_VERSION and has the image's geometry
    jobs         \* counts jobs, for MaxJobs

sessionVars == <<job, code, ask, page, attempt, hpc, error, compatible, jobs>>

SessionInit ==
    /\ job = "none" /\ code = <<>>
    /\ ask = "INFO" /\ page = 0 /\ attempt = 0
    /\ hpc = "idle" /\ error = "none"
    /\ compatible \in BOOLEAN
    /\ jobs = 0

(* The request of the exchange in progress, which every attempt repeats.   *)
Request ==
    CASE ask = "INFO"   -> [cmd |-> "INFO"]
      [] ask = "ERASE"  -> [cmd |-> "ERASE", magic |-> TRUE]
      [] ask = "WRITE"  -> [cmd |-> "WRITE", full |-> TRUE, page |-> page,
                            data |-> PageInto(code, page)]
      [] ask = "VERIFY" -> [cmd |-> "VERIFY", full |-> TRUE,
                            length |-> Len(code), crc |-> Crc(code)]
      [] ask = "BOOT"   -> [cmd |-> "BOOT"]

(* The tool starts a job once the previous one is over.                    *)
StartJob(j, c) ==
    /\ hpc \in {"idle", "ok", "failed"}
    /\ jobs < MaxJobs
    /\ jobs' = jobs + 1
    /\ job' = j /\ code' = c
    /\ ask' = (IF j = "boot" THEN "BOOT" ELSE "INFO") /\ page' = 0
    /\ attempt' = 0
    /\ hpc' = "send" /\ error' = "none"
    /\ UNCHANGED compatible

Sent ==
    /\ hpc = "send"
    /\ hpc' = "wait"
    /\ UNCHANGED <<job, code, ask, page, attempt, error, compatible, jobs>>

Fail(e) ==
    /\ hpc' = "failed" /\ error' = e
    /\ UNCHANGED <<job, code, ask, page, attempt, compatible, jobs>>

(* Faulty variants: one attempt too few, no end of attempts.               *)
RetryOnceLess(e) ==
    IF attempt + 1 >= RetryBudget
    THEN Fail(e)
    ELSE /\ attempt' = attempt + 1
         /\ hpc' = "send"
         /\ UNCHANGED <<job, code, ask, page, error, compatible, jobs>>

RetryForever(e) ==
    /\ hpc' = "send"
    /\ UNCHANGED <<job, code, ask, page, attempt, error, compatible, jobs>>

(* exchange: a transport error, a mangled reply or BAD_FRAME costs an      *)
(* attempt; the last one's error is the job's.                             *)
Retry(e) ==
    IF attempt = RetryBudget
    THEN Fail(e)
    ELSE /\ attempt' = attempt + 1
         /\ hpc' = "send"
         /\ UNCHANGED <<job, code, ask, page, error, compatible, jobs>>

(* The order of the exchanges of flash: INFO, ERASE_APP, one WRITE_PAGE    *)
(* per page that pages() yields, VERIFY.  Yields(c): the iterator stands   *)
(* at page c.                                                              *)
Yields(c) ==
    /\ ask'  = IF NextPage(code, c) = AppPages THEN "VERIFY" ELSE "WRITE"
    /\ page' = NextPage(code, c)

Follows ==
    \/ ask = "INFO"  /\ ask' = "ERASE" /\ UNCHANGED page
    \/ ask = "ERASE" /\ Yields(0)
    \/ ask = "WRITE" /\ Yields(page + 1)

(* Faulty variant: INFO is read and not judged.                            *)
AcceptUngated ==
    /\ attempt' = 0
    /\ IF ask \in {"VERIFY", "BOOT"}
       THEN hpc' = "ok" /\ UNCHANGED <<ask, page>>
       ELSE hpc' = "send" /\ Follows
    /\ UNCHANGED <<job, code, error, compatible, jobs>>

(* The exchange succeeded: the version and geometry gates follow INFO, the *)
(* job is done after its last exchange.                                    *)
Accept ==
    IF ask = "INFO" /\ ~compatible
    THEN Fail("Incompatible")
    ELSE /\ attempt' = 0
         /\ IF ask \in {"VERIFY", "BOOT"}
            THEN hpc' = "ok" /\ UNCHANGED <<ask, page>>
            ELSE hpc' = "send" /\ Follows
         /\ UNCHANGED <<job, code, error, compatible, jobs>>

(* Faulty variant: an answer is an answer, whatever its status.            *)
GotAnyStatus(reply) ==
    IF reply.cmd # ask THEN Retry("BadFrame") ELSE Accept

(* validate, and what exchange does with its verdict.                      *)
Got(reply) ==
    IF reply.cmd # ask THEN Retry("BadFrame")
    ELSE IF reply.st = "OK" THEN Accept
    ELSE IF reply.st = "BAD_FRAME" THEN Retry("DeviceBadFrame")
    ELSE Fail("Device")

(* What `updater-cli boot` prints for a job.                               *)
BootReport ==
    IF hpc = "ok" THEN "OK"
    ELSE IF error = "Transport" THEN "no BOOT ACK"
    ELSE "BOOT refused"
=============================================================================
