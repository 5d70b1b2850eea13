------------------------------- MODULE PlugHost -------------------------------
(***************************************************************************)
(* Plug control registers hosted by a local node and written remotely.    *)
(*                                                                         *)
(* The host is src/examples/test-plugs.c over the local plug code of       *)
(* src/src/plug.c: it sets up one iPCR and one oPCR (iec61883_plug_impr_   *)
(* init, _ipcr_add, _ompr_init, _opcr_add), then serves the bus requests   *)
(* to its register space, one per raw1394_loop_iterate, through            *)
(* iec61883_arm_callback (do_arm_read, do_arm_lock), until a signal makes  *)
(* it close both ranges.                                                   *)
(*                                                                         *)
(* The controllers are src/examples/plugctl.c processes on other nodes,    *)
(* each with its command line `Prog[c]`.  They reach the registers only by *)
(* iec61883_plug_get (iec61883_cooked_read, which retries a busy read) and *)
(* iec61883_plug_set (a read, then a compare-swap lock against the value   *)
(* just read).  Each raw1394 transaction blocks its caller, so a           *)
(* controller has at most one request outstanding: `req[c]`, answered in   *)
(* `resp[c]`.  Requests of different controllers interleave freely at the  *)
(* host.                                                                   *)
(*                                                                         *)
(* A register is a function from its fields to their values; a field      *)
(* assigned through a C bitfield keeps its low `Width` bits.  Reserved and *)
(* extension fields, which nothing here sets, are left out.               *)
(***************************************************************************)
EXTENDS Integers, Sequences, SequencesExt

CONSTANTS
    Ctl,        \* plugctl processes
    Prog,       \* Prog[c]: the plug arguments of c's command line, in order
    NPcr,       \* PCR indices of each direction the command lines use
    ArmOk,      \* outcomes of raw1394_arm_register the host may meet
    MaxTries,   \* MAXTRIES of cooked.c: read attempts before giving up
    MaxBusy     \* busy acknowledgements the bus gives in a behaviour

VARIABLES
    hstate,  \* test-plugs: "down" (not started), "serving", "closed"
    regs,    \* the host's g_data_out and g_data_in, register by register
    ctl,     \* per controller: where plugctl is and its locals
    req,     \* per controller: the transaction it waits on, or NoReq
    resp,    \* per controller: the answer to it, or NoResp
    busy     \* busy acknowledgements so far

vars == <<hstate, regs, ctl, req, resp, busy>>

NoReq == [kind |-> "none"]
NoResp == [rcode |-> "none"]

(* The registers: <<type, index>> with the CSR offsets of iec61883-      *)
(* private.h (oMPR 0x900, oPCR[k] 0x904 + 4k, iMPR 0x980, iPCR[k]        *)
(* 0x984 + 4k).                                                          *)
OMPR == <<"oMPR", 0>>
IMPR == <<"iMPR", 0>>
OPCR(k) == <<"oPCR", k>>
IPCR(k) == <<"iPCR", k>>
Pcrs == 0..(NPcr - 1)
Regs == {OMPR, IMPR} \cup {OPCR(k) : k \in Pcrs} \cup {IPCR(k) : k \in Pcrs}

(* The bitfields of struct iec61883_oMPR, _iMPR, _oPCR and _iPCR. *)
Fields(t) ==
    CASE t = "oMPR" -> {"data_rate", "bcast_channel", "n_plugs"}
      [] t = "iMPR" -> {"data_rate", "n_plugs"}
      [] t = "oPCR" -> {"online", "bcast", "n_p2p", "channel", "data_rate",
                        "overhead_id", "payload"}
      [] t = "iPCR" -> {"online", "bcast", "n_p2p", "channel"}

Width == [data_rate |-> 2, bcast_channel |-> 6, n_plugs |-> 5, online |-> 1,
          bcast |-> 1, n_p2p |-> 6, channel |-> 6, overhead_id |-> 4,
          payload |-> 10]

\* Assigning v to a bitfield stores its low bits.
Trunc(f, v) == v % (2 ^ Width[f])

Zero(t) == [f \in Fields(t) |-> 0]

-----------------------------------------------------------------------------
(* The host: the local plug functions of plug.c as operators on the      *)
(* register map, composed as test-plugs' main calls them.                *)

DATARATE_400 == 2
OVERHEAD_512 == 0

(* iec61883_plug_impr_init: clear g_data_in and set the data rate (an    *)
(* invalid rate only sets errno, and the registers are still set up).    *)
ImprInit(r, rate) ==
    [q \in Regs |-> IF q[1] \in {"iMPR", "iPCR"}
                     THEN IF q = IMPR THEN [Zero("iMPR") EXCEPT !.data_rate = rate % 4]
                          ELSE Zero("iPCR")
                     ELSE r[q]]

(* iec61883_plug_ipcr_add: plug n_plugs goes online, n_plugs grows.      *)
(* Its refusals (no callback, 31 plugs, online > 1) are not met here.   *)
IpcrAdd(r, online) ==
    LET i == r[IMPR].n_plugs
    IN  [r EXCEPT ![IPCR(i)].online = online, ![IMPR].n_plugs = i + 1]

(* iec61883_plug_ompr_init *)
OmprInit(r, rate, bcast) ==
    [q \in Regs |-> IF q[1] \in {"oMPR", "oPCR"}
                     THEN IF q = OMPR
                          THEN [Zero("oMPR") EXCEPT !.data_rate = rate % 4,
                                                    !.bcast_channel = bcast % 64]
                          ELSE Zero("oPCR")
                     ELSE r[q]]

(* iec61883_plug_opcr_add *)
OpcrAdd(r, online, overhead, payload) ==
    LET i == r[OMPR].n_plugs
    IN  [r EXCEPT ![OPCR(i)].online = online, ![OPCR(i)].overhead_id = overhead,
                  ![OPCR(i)].payload = payload, ![OMPR].n_plugs = i + 1]

(* test-plugs: set up the input side, then the output side; a failing    *)
(* raw1394_arm_register makes it return 1, and its handle (with any      *)
(* range registered) goes away.  Requests are served only from the loop  *)
(* that follows, so the set-up is one step.                              *)
HostStart ==
    /\ hstate = "down"
    /\ \E okIn \in ArmOk, okOut \in ArmOk :
          IF okIn /\ okOut
          THEN /\ regs' = OpcrAdd(OmprInit(IpcrAdd(ImprInit(regs, DATARATE_400), 1),
                                           DATARATE_400, 63),
                                  1, OVERHEAD_512, 968 \div 4)
               /\ hstate' = "serving"
          ELSE /\ hstate' = "closed"
               /\ UNCHANGED regs
    /\ UNCHANGED <<ctl, req, resp, busy>>

(* On SIGINT/SIGTERM: iec61883_plug_impr_close and _ompr_close set       *)
(* n_plugs to 0 and unregister both ranges.                              *)
HostClose ==
    /\ hstate = "serving"
    /\ hstate' = "closed"
    /\ regs' = [regs EXCEPT ![IMPR].n_plugs = 0, ![OMPR].n_plugs = 0]
    /\ UNCHANGED <<ctl, req, resp, busy>>

(* do_arm_read: the response carries the addressed register. *)
DoArmRead(r, q) == [rcode |-> "complete", val |-> r[q.reg]]

(* do_arm_lock for EXTCODE_COMPARE_SWAP: the old value goes into the     *)
(* response, and the data replaces it if the old value equals the        *)
(* argument (both compared as bus-order quadlets).                       *)
DoArmLock(r, q) == IF r[q.reg] = q.arg THEN [r EXCEPT ![q.reg] = q.data] ELSE r

(* iec61883_arm_callback for a quadlet request to either range: a read   *)
(* goes to do_arm_read, a lock to do_arm_lock.  plug_get and plug_set    *)
(* only send quadlet reads (tcode 4) and compare-swap locks, which pass  *)
(* the callback's checks.                                                *)
ArmServe(c) ==
    /\ hstate = "serving"
    /\ req[c] # NoReq
    /\ resp[c] = NoResp
    /\ resp' = [resp EXCEPT ![c] = DoArmRead(regs, req[c])]
    /\ regs' = IF req[c].kind = "lock" THEN DoArmLock(regs, req[c]) ELSE regs
    /\ UNCHANGED <<hstate, ctl, req, busy>>

(* No range is registered (before set-up, or after close or exit): the   *)
(* host's stack answers with an address error.                           *)
AddressError(c) ==
    /\ hstate # "serving"
    /\ req[c] # NoReq
    /\ resp[c] = NoResp
    /\ resp' = [resp EXCEPT ![c] = [rcode |-> "error"]]
    /\ UNCHANGED <<hstate, regs, ctl, req, busy>>

(* The host's link acknowledges a request busy; raw1394 returns EAGAIN.  *)
Busy(c) ==
    /\ busy < MaxBusy
    /\ req[c] # NoReq
    /\ resp[c] = NoResp
    /\ resp' = [resp EXCEPT ![c] = [rcode |-> "busy"]]
    /\ busy' = busy + 1
    /\ UNCHANGED <<hstate, regs, ctl, req>>

-----------------------------------------------------------------------------
(* plugctl's main.  Its first loop takes the arguments in order: a get   *)
(* reads the register into the local copy of its type (o_mpr, i_mpr,     *)
(* o_pcr or i_pcr, one per type whatever the index); a set reads it too  *)
(* unless is_got_ says it was read, then assigns the field in the copy   *)
(* and marks the register (is_set_).  is_got_ompr and is_got_impr are    *)
(* set after a read; is_got_opcr[idx] and is_got_ipcr[idx] are not (the  *)
(* statement `is_got_opcr[idx];` assigns nothing).  A failed read ends   *)
(* the loop with result < 0.  Arguments are `[op, reg, field, val]`;     *)
(* attribute names are all valid and the -p/-n options are left out.    *)

Type(r) == r[1]

\* The order of the writes after the loop: oMPR, iMPR, then oPCR[i], iPCR[i] for each i.
RegOrder == <<OMPR, IMPR>> \o [j \in 1..(2 * NPcr) |->
                                IF j % 2 = 1 THEN OPCR((j - 1) \div 2) ELSE IPCR((j - 2) \div 2)]

NeedsRead(s, a) ==
    a.op = "get" \/ Type(a.reg) \in {"oPCR", "iPCR"} \/ Type(a.reg) \notin s.got

SetField(s, a) ==
    [s EXCEPT !.loc[Type(a.reg)][a.field] = Trunc(a.field, a.val),
              !.setRegs = @ \cup {a.reg}, !.ai = @ + 1]

\* Mutant: one attempt more than MAXTRIES.
ReadFailsLate(r, tries) ==
    r.rcode = "error" \/ (r.rcode = "busy" /\ tries >= MaxTries)

\* cooked_read gives up after MAXTRIES busy answers, or at once on another error.
ReadFails(r, tries) ==
    r.rcode = "error" \/ (r.rcode = "busy" /\ tries + 1 >= MaxTries)

ArgLocal(c) ==
    LET s == ctl[c]
        a == Prog[c][s.ai]
    IN  /\ s.pc = "arg" /\ s.result = 0 /\ s.ai <= Len(Prog[c])
        /\ a.op = "set" /\ ~NeedsRead(s, a)
        /\ ctl' = [ctl EXCEPT ![c] = SetField(s, a)]
        /\ UNCHANGED <<hstate, regs, req, resp, busy>>

(* plug_get: cooked_read sends a quadlet read. *)
ArgRead(c) ==
    LET s == ctl[c]
        a == Prog[c][s.ai]
    IN  /\ s.pc = "arg" /\ s.result = 0 /\ s.ai <= Len(Prog[c])
        /\ NeedsRead(s, a)
        /\ req' = [req EXCEPT ![c] = [kind |-> "read", reg |-> a.reg]]
        /\ ctl' = [ctl EXCEPT ![c].pc = "get", ![c].tries = 0]
        /\ UNCHANGED <<hstate, regs, resp, busy>>

(* cooked_read: a busy answer is retried while attempts remain. *)
ReadRetry(c) ==
    /\ ctl[c].pc \in {"get", "setread"}
    /\ resp[c].rcode = "busy"
    /\ ~ReadFails(resp[c], ctl[c].tries)
    /\ resp' = [resp EXCEPT ![c] = NoResp]
    /\ ctl' = [ctl EXCEPT ![c].tries = @ + 1]
    /\ UNCHANGED <<hstate, regs, req, busy>>

GetDone(c) ==
    LET s == ctl[c]
        a == Prog[c][s.ai]
        t == Type(a.reg)
        read == [s EXCEPT !.pc = "arg", !.loc[t] = resp[c].val,
                          !.got = IF a.op = "set" /\ t \in {"oMPR", "iMPR"} THEN @ \cup {t} ELSE @]
    IN  /\ s.pc = "get"
        /\ resp[c].rcode = "complete"
        /\ ctl' = [ctl EXCEPT ![c] = IF a.op = "set" THEN SetField(read, a)
                                     ELSE [read EXCEPT !.ai = @ + 1]]
        /\ req' = [req EXCEPT ![c] = NoReq]
        /\ resp' = [resp EXCEPT ![c] = NoResp]
        /\ UNCHANGED <<hstate, regs, busy>>

GetFailed(c) ==
    /\ ctl[c].pc = "get"
    /\ ReadFails(resp[c], ctl[c].tries)
    /\ ctl' = [ctl EXCEPT ![c].pc = "arg", ![c].result = -1]
    /\ req' = [req EXCEPT ![c] = NoReq]
    /\ resp' = [resp EXCEPT ![c] = NoResp]
    /\ UNCHANGED <<hstate, regs, busy>>

EndArgs(c) ==
    LET s == ctl[c]
    IN  /\ s.pc = "arg"
        /\ s.ai > Len(Prog[c]) \/ s.result # 0
        /\ ctl' = [ctl EXCEPT ![c].pc = "write", ![c].wi = 1,
                              ![c].W = SelectSeq(RegOrder, LAMBDA r : r \in s.setRegs)]
        /\ UNCHANGED <<hstate, regs, req, resp, busy>>

(* The writes after the loop, only while result is 0: oMPR, iMPR, then   *)
(* for each index oPCR[i] and iPCR[i], all from the one copy of their    *)
(* type.  Inside one index the iPCR is written whatever the oPCR write   *)
(* returned, and its result replaces the oPCR's.                         *)
CanWrite(s) ==
    /\ s.wi <= Len(s.W)
    /\ \/ s.result = 0
       \/ s.wi > 1 /\ Type(s.W[s.wi]) = "iPCR" /\ s.W[s.wi - 1] = OPCR(s.W[s.wi][2])

(* iec61883_plug_set, first the plug_get of the compare value. *)
SetStart(c) ==
    /\ ctl[c].pc = "write"
    /\ CanWrite(ctl[c])
    /\ req' = [req EXCEPT ![c] = [kind |-> "read", reg |-> ctl[c].W[ctl[c].wi]]]
    /\ ctl' = [ctl EXCEPT ![c].pc = "setread", ![c].tries = 0]
    /\ UNCHANGED <<hstate, regs, resp, busy>>

\* Mutant: the compare and swap arguments of raw1394_lock exchanged.
SetReadDoneSwapped(c) ==
    LET s == ctl[c]
        r == s.W[s.wi]
    IN  /\ s.pc = "setread"
        /\ resp[c].rcode = "complete"
        /\ req' = [req EXCEPT ![c] = [kind |-> "lock", reg |-> r,
                                      arg |-> s.loc[Type(r)], data |-> resp[c].val]]
        /\ resp' = [resp EXCEPT ![c] = NoResp]
        /\ ctl' = [ctl EXCEPT ![c].pc = "setlock", ![c].compare = resp[c].val]
        /\ UNCHANGED <<hstate, regs, busy>>

(* The value read is the compare value: raw1394_lock sends a compare-    *)
(* swap with it as argument and the caller's value as data.              *)
SetReadDone(c) ==
    LET s == ctl[c]
        r == s.W[s.wi]
    IN  /\ s.pc = "setread"
        /\ resp[c].rcode = "complete"
        /\ req' = [req EXCEPT ![c] = [kind |-> "lock", reg |-> r,
                                      arg |-> resp[c].val, data |-> s.loc[Type(r)]]]
        /\ resp' = [resp EXCEPT ![c] = NoResp]
        /\ ctl' = [ctl EXCEPT ![c].pc = "setlock", ![c].compare = resp[c].val]
        /\ UNCHANGED <<hstate, regs, busy>>

SetReadFailed(c) ==
    /\ ctl[c].pc = "setread"
    /\ ReadFails(resp[c], ctl[c].tries)
    /\ ctl' = [ctl EXCEPT ![c].pc = "write", ![c].result = -1, ![c].wi = @ + 1]
    /\ req' = [req EXCEPT ![c] = NoReq]
    /\ resp' = [resp EXCEPT ![c] = NoResp]
    /\ UNCHANGED <<hstate, regs, busy>>

(* The lock's answer: success only when the old value it returns equals  *)
(* the compare value.  A failed lock (error or busy, which is not        *)
(* retried) leaves `new` unset and returns a negative result either way; *)
(* -1 stands for every negative result.                                  *)
SetLockDone(c) ==
    /\ ctl[c].pc = "setlock"
    /\ resp[c] # NoResp
    /\ ctl' = [ctl EXCEPT ![c].pc = "write", ![c].wi = @ + 1,
                          ![c].result = IF resp[c].rcode = "complete"
                                           /\ resp[c].val = ctl[c].compare
                                        THEN 0 ELSE -1]
    /\ req' = [req EXCEPT ![c] = NoReq]
    /\ resp' = [resp EXCEPT ![c] = NoResp]
    /\ UNCHANGED <<hstate, regs, busy>>

(* plugctl returns result. *)
WriteEnd(c) ==
    /\ ctl[c].pc = "write"
    /\ ~CanWrite(ctl[c])
    /\ ctl' = [ctl EXCEPT ![c].pc = "done"]
    /\ UNCHANGED <<hstate, regs, req, resp, busy>>

-----------------------------------------------------------------------------
Types == {"oMPR", "iMPR", "oPCR", "iPCR"}

(* The registers are static globals (zero); plugctl starts at its first  *)
(* argument.                                                             *)
Init ==
    /\ hstate = "down"
    /\ regs = [q \in Regs |-> Zero(Type(q))]
    /\ ctl = [c \in Ctl |-> [pc |-> "arg", ai |-> 1, result |-> 0,
                             loc |-> [t \in Types |-> Zero(t)], got |-> {},
                             setRegs |-> {}, W |-> << >>, wi |-> 1,
                             compare |-> Zero("oMPR"), tries |-> 0]]
    /\ req = [c \in Ctl |-> NoReq]
    /\ resp = [c \in Ctl |-> NoResp]
    /\ busy = 0

\* Every plugctl has exited and the host is gone.
Done ==
    /\ \A c \in Ctl : ctl[c].pc = "done"
    /\ hstate = "closed"
    /\ UNCHANGED vars

Next ==
    \/ HostStart \/ HostClose
    \/ \E c \in Ctl :
          \/ ArmServe(c) \/ AddressError(c) \/ Busy(c)
          \/ ArgLocal(c) \/ ArgRead(c) \/ ReadRetry(c) \/ GetDone(c) \/ GetFailed(c)
          \/ EndArgs(c) \/ SetStart(c) \/ SetReadDone(c) \/ SetReadFailed(c)
          \/ SetLockDone(c) \/ WriteEnd(c)
    \/ Done

Spec == Init /\ [][Next]_vars

-----------------------------------------------------------------------------
(* Properties *)

TypeOK ==
    /\ hstate \in {"down", "serving", "closed"}
    /\ \A q \in Regs : DOMAIN regs[q] = Fields(Type(q))
    /\ \A c \in Ctl : ctl[c].pc \in {"arg", "get", "write", "setread", "setlock", "done"}
                      /\ ctl[c].result \in {0, -1}
                      /\ ctl[c].tries \in 0..(MaxTries - 1)
    /\ busy \in 0..MaxBusy

(* What plugctl promises its user: when it exits with 0, every attribute *)
(* its command line set holds the value given (cut to the bitfield)      *)
(* while the host still serves the registers.  It rests on plug_set's    *)
(* compare-swap (the doc comment: "to safely write the new register      *)
(* value, as required by IEC 61883-1"), on plugctl's local copies, and   *)
(* on the result of every write reaching the exit status.  Command lines *)
(* running at the same time never set one field to different values.     *)
ExitZeroMeansSet ==
    hstate = "serving" =>
        \A c \in Ctl :
            (ctl[c].pc = "done" /\ ctl[c].result = 0) =>
                \A i \in 1..Len(Prog[c]) :
                    LET a == Prog[c][i]
                    IN  a.op = "set" => regs[a.reg][a.field] = Trunc(a.field, a.val)
=============================================================================
