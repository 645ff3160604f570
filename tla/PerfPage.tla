------------------------------ MODULE PerfPage ------------------------------
(***************************************************************************)
(* A thread that reads its own performance event without a system call:    *)
(* the loop, and the arithmetic after it, that linux/perf_event.h gives    *)
(* beside the fields of struct perf_event_mmap_page.                       *)
(*                                                                         *)
(* Only a thread that monitors itself may do so.  The kernel then writes   *)
(* the page on the processor of the reader, which is stopped meanwhile: an *)
(* update comes between any two accesses of the loop, but never during the *)
(* read of one.  The kernel, the counter and the clock are external.       *)
(***************************************************************************)
EXTENDS Integers, Sequences

CONSTANTS
  LockMod,   \* the number of values of lock, 2^32 in the code
  LongBits,  \* the bits of a u64
  PmcBits,   \* the bits of a hardware counter
  ClockBits, \* the bits of the hardware clock, if it is short
  Clocks,    \* the pairs of time_mult and time_shift
  Caps,      \* the sets of capabilities
  Indexes,   \* the values of index when the event is on a counter
  MaxUpdates, MaxTotal, MaxTsc, \* bounds of the model
  InitLock, InitTsc             \* values to start from

(* 1 << n *)
Pow2[n \in Nat] == IF n = 0 THEN 1 ELSE 2 * Pow2[n - 1]

(* What a u64 keeps of a number. *)
Long == Pow2[LongBits]
U64(x) == x % Long

ASSUME LockAssumption == LockMod \in Nat /\ LockMod > 2 /\ InitLock \subseteq 0..(LockMod - 1)

(* A product of time_mult and a remainder below 1 << time_shift fits into a *)
(* u64, as it does for a u32 and a shift of at most 32.                    *)
ASSUME ClockAssumption ==
  /\ Clocks \subseteq (Nat \ {0}) \X Nat /\ Clocks # {}
  /\ \A c \in Clocks : c[1] * Pow2[c[2]] <= Long
ASSUME CapAssumption ==
  Caps \subseteq {c \in SUBSET {"rdpmc", "time", "short"} : "short" \in c => "time" \in c}
ASSUME IndexAssumption == Indexes \subseteq Nat \ {0}
ASSUME WidthAssumption ==
  LongBits \in Nat /\ PmcBits \in 1..LongBits /\ ClockBits \in Nat

(* What the clock shows the kernel in ns, by definition. *)
Ns(c, mult, shift) == (c * mult) \div Pow2[shift]

(* The number of events, the clock and the time it shows, each by itself,  *)
(* stay below 2^64.  The product of the clock and time_mult need not.      *)
ASSUME BoundAssumption ==
  /\ MaxUpdates \in Nat /\ MaxTotal \in Nat /\ MaxTsc \in Nat /\ InitTsc \subseteq 0..MaxTsc
  /\ MaxTotal < Long /\ MaxTsc < Long
  /\ \A c \in Clocks : Ns(MaxTsc, c[1], c[2]) < Long

(* In the order in which the loop reads them; cyc and pmc come from the    *)
(* hardware, the others from the page.                                     *)
Order == <<"lock", "time_enabled", "time_running", "cyc", "time_offset", "time_mult",
           "time_shift", "time_cycles", "index", "offset", "pmc_width", "pmc">>
Locals == {Order[i] : i \in 1..12}
Fields == Locals \ {"cyc", "pmc"}
Check == 13

VARIABLES
  cap,       \* the capabilities of the page: "rdpmc", "time", "short"
  page,      \* its fields
  counter,   \* the hardware counter of the event, as the kernel set it and it counted
  tsc,       \* the clock
  total,     \* how often the event has happened while it was counted
  enabled, running,  \* how long it has been enabled, and on a counter
  updates,   \* the number of updates of the page
  at,        \* the reader's place in Order; then Check, and 0 outside of the loop
  got,       \* its local variables
  have,      \* those it has read in this pass of the loop
  since,     \* the updates since it read lock
  truth,     \* what total, enabled and running were when it read the hardware
  result     \* what it has computed

kernelVars == <<cap, page, counter, tsc, total, enabled, running, updates>>
readerVars == <<at, got, have, since, truth, result>>
vars == <<kernelVars, readerVars>>

-----------------------------------------------------------------------------
(* Mutant: the shift to the right is not a signed one. *)
ZeroExtend(v, width) == v

(* pmc <<= 64 - width; pmc >>= 64 - width, with a signed shift right. *)
SignExtend(v, width) ==
  LET up == U64(v * Pow2[LongBits - width])
      signed == IF up >= Long \div 2 THEN up - Long ELSE up
  IN  signed \div Pow2[LongBits - width]

(* Mutant: the clock is taken as it is. *)
ShortAsIs(cyc, cycles) == cyc

(* cyc = time_cycles + ((cyc - time_cycles) & time_mask) *)
ShortClock(cyc, cycles) ==
  U64(cycles + ((cyc - cycles) % Pow2[ClockBits]))

(* Mutant: the product is formed before it is shifted. *)
ToNsProduct(cyc, mult, shift) == U64(cyc * mult) \div Pow2[shift]

(* From the clock to ns: quot * time_mult + ((rem * time_mult) >> time_shift) *)
ToNs(cyc, mult, shift) ==
  LET quot == cyc \div Pow2[shift]
      rem == cyc % Pow2[shift]
  IN  U64(quot * mult + U64(rem * mult) \div Pow2[shift])

(* And back: (quot << time_shift) + (rem << time_shift) / time_mult *)
ToCyc(time, mult, shift) ==
  LET quot == time \div mult
      rem == time % mult
  IN  U64(quot * Pow2[shift] + U64(rem * Pow2[shift]) \div mult)

(* quot * enabled + (rem * enabled) / running.  The code divides by a      *)
(* running of 0 as well; there is no result then.                          *)
Scale(count, en, run) ==
  LET quot == count \div run
      rem == count % run
  IN  U64(quot * en + U64(rem * en) \div run)

-----------------------------------------------------------------------------
(* lock is a u32, and incremented before and after the update. *)
Increment(n) == IF n = LockMod - 1 THEN 0 ELSE n + 1

(* The local variables before the loop; only pmc is initialised, and none  *)
(* of the others is used before it is read.                                *)
Cleared == [f \in Locals |-> 0]

NoResult == [count |-> 0, enabled |-> 0, running |-> 0, scaled |-> 0, timed |-> FALSE, stale |-> FALSE]

Init ==
  /\ cap \in Caps
  /\ tsc \in InitTsc
  /\ \E c \in Clocks, l \in InitLock :
       page = [f \in Fields |->
                 IF f = "lock" THEN l
                 ELSE IF f = "time_mult" THEN c[1]
                 ELSE IF f = "time_shift" THEN c[2]
                 ELSE IF f = "time_offset" THEN U64(-Ns(tsc, c[1], c[2]))
                 ELSE IF f = "time_cycles" THEN tsc
                 ELSE IF f = "pmc_width" THEN PmcBits
                 ELSE 0]
  /\ counter = 0 /\ total = 0 /\ enabled = 0 /\ running = 0 /\ updates = 0
  /\ at = 0 /\ got = Cleared /\ have = {} /\ since = 0
  /\ truth = [total |-> 0, enabled |-> 0, running |-> 0]
  /\ result = NoResult

(* The kernel takes the event off its counter, which then is no concern of *)
(* the reader's, or puts it on one and sets it to v, and writes the page.  *)
(* Only a counter the thread may read is given in index.  Less than 2^31   *)
(* updates happen in a pass of the loop.                                   *)
Update(i, v, c) ==
  /\ updates < MaxUpdates
  /\ at > 1 => 2 * since + 2 < LockMod
  /\ IF i = 0 THEN v = 0 ELSE "rdpmc" \in cap
  /\ counter' = v
  /\ page' = [f \in Fields |->
                IF f = "lock" THEN Increment(Increment(page["lock"]))
                ELSE IF f = "index" THEN i
                ELSE IF f = "offset" THEN
                  U64(IF i = 0 THEN total ELSE total - SignExtend(v, PmcBits))
                ELSE IF f = "time_enabled" THEN enabled
                ELSE IF f = "time_running" THEN running
                ELSE IF f = "time_mult" THEN c[1]
                ELSE IF f = "time_shift" THEN c[2]
                ELSE IF f = "time_offset" THEN U64(-Ns(tsc, c[1], c[2]))
                ELSE IF f = "time_cycles" THEN tsc
                ELSE page[f]]
  /\ updates' = updates + 1
  /\ since' = IF at > 1 THEN since + 1 ELSE 0
  /\ UNCHANGED <<cap, tsc, total, enabled, running, at, got, have, truth, result>>

(* The event happens.  The kernel sees to it that the counter does not run *)
(* from the largest value to the smallest: it is interrupted at 0.         *)
Count ==
  /\ page["index"] # 0
  /\ total < MaxTotal
  /\ counter # Pow2[PmcBits - 1] - 1
  /\ counter' = (counter + 1) % Pow2[PmcBits]
  /\ total' = total + 1
  /\ UNCHANGED <<cap, page, tsc, enabled, running, updates, readerVars>>

(* Time passes.  A short clock is read again before it has gone around,    *)
(* and an event is not enabled for 2^64 ns.                                *)
Tick ==
  LET d == Ns(tsc + 1, page["time_mult"], page["time_shift"])
             - Ns(tsc, page["time_mult"], page["time_shift"])
  IN  /\ tsc < MaxTsc
      /\ "short" \in cap => tsc + 1 < page["time_cycles"] + Pow2[ClockBits]
      /\ enabled + d < Long
      /\ tsc' = tsc + 1
      /\ enabled' = enabled + d
      /\ running' = IF page["index"] # 0 THEN running + d ELSE running
      /\ UNCHANGED <<cap, page, counter, total, updates, readerVars>>

-----------------------------------------------------------------------------
(* The reader calls the function. *)
Begin ==
  /\ at = 0
  /\ at' = 1
  /\ got' = Cleared
  /\ have' = {}
  /\ since' = 0
  /\ UNCHANGED <<kernelVars, truth, result>>

(* What a read finds.  A counter that is not, or no longer, that of the    *)
(* event may hold anything.                                                *)
Finds(f) ==
  IF f = "cyc" THEN {IF "short" \in cap THEN tsc % Pow2[ClockBits] ELSE tsc}
  ELSE IF f = "pmc" THEN IF got["index"] = page["index"] THEN {counter} ELSE 0..(Pow2[PmcBits] - 1)
  ELSE {page[f]}

UsesTime(g) == "time" \in cap /\ g["time_enabled"] # g["time_running"]
UsesPmc(g) == "rdpmc" \in cap /\ g["index"] # 0

(* Where the loop goes on after place i. *)
Follow(i, g) ==
  IF i = 3 /\ ~UsesTime(g) THEN 9
  ELSE IF i = 10 /\ ~UsesPmc(g) THEN Check
  ELSE i + 1

Read ==
  /\ at \in 1..12
  /\ \E v \in Finds(Order[at]) :
       /\ got' = [got EXCEPT ![Order[at]] = v]
       /\ at' = Follow(at, [got EXCEPT ![Order[at]] = v])
  /\ have' = have \cup {Order[at]}
  /\ since' = IF at = 1 THEN 0 ELSE since
  /\ truth' = [total |-> IF at \in {10, 12} THEN total ELSE truth.total,
               enabled |-> IF at = 4 THEN enabled ELSE truth.enabled,
               running |-> IF at = 4 THEN running ELSE truth.running]
  /\ UNCHANGED <<kernelVars, result>>

(* Mutant: the next pass does not read lock again. *)
RetryOldLock ==
  /\ at = Check
  /\ page["lock"] # got["lock"]
  /\ at' = 2
  /\ have' = {"lock"}
  /\ UNCHANGED <<kernelVars, got, since, truth, result>>

(* while (pc->lock != seq) *)
Retry ==
  /\ at = Check
  /\ page["lock"] # got["lock"]
  /\ at' = 1
  /\ have' = {}
  /\ since' = 0
  /\ UNCHANGED <<kernelVars, got, truth, result>>

(* Time since time_enabled was written. *)
Delta(g) ==
  LET cyc == IF "short" \in cap THEN ShortClock(g["cyc"], g["time_cycles"]) ELSE g["cyc"]
  IN  U64(g["time_offset"] + ToNs(cyc, g["time_mult"], g["time_shift"]))

(* if (index) running += delta *)
RunningTime(g, delta) ==
  IF g["index"] # 0 THEN U64(g["time_running"] + delta) ELSE g["time_running"]

(* What is computed from the local variables.  With cap_user_rdpmc pmc is  *)
(* added in any case, and is then what an earlier pass of the loop has     *)
(* left there if this one found an index of 0.                             *)
Compute(g) ==
  LET delta == IF UsesTime(g) THEN Delta(g) ELSE 0
      en    == U64(g["time_enabled"] + delta)
      run   == RunningTime(g, delta)
      pmc   == IF "rdpmc" \in cap /\ g["pmc"] # 0 THEN SignExtend(g["pmc"], g["pmc_width"]) ELSE 0
      count == U64(g["offset"] + pmc)
  IN  [count |-> count, enabled |-> en, running |-> run,
       scaled |-> IF run = 0 THEN 0 ELSE Scale(count, en, run),
       timed |-> UsesTime(g),
       stale |-> g["index"] = 0 /\ g["pmc"] # 0]

(* Mutant: the loop is left whatever lock is. *)
AcceptAnyway ==
  /\ at = Check
  /\ at' = 0
  /\ result' = Compute(got)
  /\ got' = Cleared
  /\ have' = {}
  /\ since' = 0
  /\ UNCHANGED <<kernelVars, truth>>

Accept ==
  /\ at = Check
  /\ page["lock"] = got["lock"]
  /\ at' = 0
  /\ result' = Compute(got)
  /\ got' = Cleared
  /\ have' = {}
  /\ since' = 0
  /\ UNCHANGED <<kernelVars, truth>>

Kernel ==
  \/ \E i \in Indexes \cup {0}, v \in 0..(Pow2[PmcBits] - 1), c \in Clocks : Update(i, v, c)
  \/ Count
  \/ Tick

Reader == Begin \/ Read \/ Retry \/ Accept

Next == Kernel \/ Reader

Spec == Init /\ [][Next]_vars

(* The thread runs.  Updates end in the model; in the system there are few *)
(* in the time of a pass.                                                  *)
FairSpec == Spec /\ WF_vars(Read) /\ WF_vars(Retry) /\ WF_vars(Accept)

-----------------------------------------------------------------------------
TypeOK ==
  /\ cap \subseteq {"rdpmc", "time", "short"}
  /\ page \in [Fields -> Nat]
  /\ page["lock"] < LockMod
  /\ counter \in 0..(Pow2[PmcBits] - 1)
  /\ tsc \in Nat /\ total \in Nat /\ enabled \in Nat /\ running \in Nat /\ updates \in Nat
  /\ at \in 0..Check
  /\ got \in [Locals -> Nat]
  /\ have \subseteq Locals
  /\ since \in Nat
  /\ truth \in [total : Nat, enabled : Nat, running : Nat]
  /\ DOMAIN result = DOMAIN NoResult

(* When the loop is left, all that was read from the page in its last pass *)
(* is what the page holds, however many updates came between the reads and *)
(* although lock wraps: comparing lock once, with no look at whether it is *)
(* odd, is enough for a thread that monitors itself.                       *)
AcceptsSnapshot ==
  [][at = Check /\ at' = 0 => \A f \in have \cap Fields : got[f] = page[f]]_vars

(* The count is the number of events up to the moment at which the         *)
(* hardware counter was read, or at which the page was if the event was on *)
(* no counter: the sign extension makes up for whatever the kernel set the *)
(* counter to.  It is not so if the event was taken off its counter in an  *)
(* earlier pass, because pmc keeps the value read there.                   *)
CountTrue == at = 0 /\ ~result.stale => result.count = truth.total

(* With the clock the times are those of the moment at which the clock was *)
(* read, even if it has gone around since the update; without it they are  *)
(* times of the past.                                                      *)
TimesTrue ==
  at = 0 =>
    IF result.timed THEN result.enabled = truth.enabled /\ result.running = truth.running
    ELSE result.enabled <= enabled /\ result.running <= running

(* A later call never gives a smaller count or time than an earlier one,   *)
(* though one of them may use the clock and the other not.                 *)
ResultsMonotone ==
  [][at = Check /\ at' = 0 =>
       /\ result'.enabled >= result.enabled
       /\ result'.running >= result.running
       /\ ~result.stale /\ ~result'.stale => result'.count >= result.count]_vars

(* The scaled count is count * enabled / running, rounded down once, and   *)
(* not less than count: the event was never on a counter for longer than   *)
(* it was enabled.  It is not so when rem * enabled is beyond a u64, which *)
(* the split of the product does not prevent.                              *)
ScaleExact ==
  LET exact == (result.count * result.enabled) \div result.running
  IN  /\ at = 0 /\ ~result.stale /\ result.running # 0
      /\ (result.count % result.running) * result.enabled < Long
      => result.scaled = U64(exact) /\ exact >= result.count

(* What the self-monitoring loop of the comment on rdpmc returns is true:  *)
(* its count, its times and the count scaled with them, of one moment,     *)
(* however updates and other passes fell between the reads; and lock, the  *)
(* counter and the rest keep their widths.                                 *)
ResultTrue == TypeOK /\ CountTrue /\ TimesTrue /\ ScaleExact

(* The clock that a thread outside of the loop computes back from the      *)
(* timestamp of any sample so far is never later than the one of the       *)
(* sample, and earlier by less than the clock makes in a ns, and one: also *)
(* when the products that the text splits, of the clock and time_mult and  *)
(* of the time and 1 << time_shift, are beyond a u64.                      *)
SampleClock ==
  LET mult == page["time_mult"]
      shift == page["time_shift"]
  IN  at = 0 => \A t \in 0..tsc :
        LET cyc == ToCyc(ToNs(t, mult, shift), mult, shift)
        IN  cyc <= t /\ (t - cyc) * mult < Pow2[shift] + mult

(* Every call returns. *)
ReadEnds == at # 0 ~> at = 0
=============================================================================
