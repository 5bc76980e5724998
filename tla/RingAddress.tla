----------------------------- MODULE RingAddress -----------------------------
(***************************************************************************)
(* Which target an address belongs to: decode_target of                    *)
(* tm_ring_topology.cc on the address maps that tm_make_ring_target_cfg    *)
(* builds, and the second copy of the decoder that the reports use         *)
(* (tools/tm_ring_demo_report.h).  Addresses are counted in sectors.       *)
(***************************************************************************)
EXTENDS RingTopology

CONSTANTS
  Limit,      \* addresses of a map: tm_ring_default_target_address_limit
  LineSize,   \* interleave_size
  HashShift,  \* interleave_hash_shift
  HashSeed,   \* interleave_hash_seed
  Width       \* bits of an address: uint64_t

(* Powers of two, and the bits of a number. *)
Pow2[n \in Nat] == IF n = 0 THEN 1 ELSE 2 * Pow2[n - 1]

Bit(x, i) == (x \div Pow2[i]) % 2

(* Lines do not straddle the limit, since both are powers of two           *)
(* (tm_ring_core.cc:102), and an address has bits enough.                  *)
ASSUME AddressAssumption ==
  /\ Limit \in Nat \ {0} /\ LineSize \in Nat \ {0} /\ Limit % LineSize = 0
  /\ HashShift \in Nat /\ HashSeed \in Nat
  /\ Width \in Nat /\ Limit <= Pow2[Width]

(* The target that the configuration helper makes: interleaved targets     *)
(* share the whole range, otherwise the first one is the default and the   *)
(* others are empty.                                                       *)
Target(c, t) ==
  LET spread == c.interleave # "NONE"
  IN  [begin |-> 0,
       size |-> IF spread \/ t = 0 THEN Limit ELSE 0,
       default |-> ~spread /\ t = 0,
       unit |-> IF spread THEN LineSize ELSE 0,
       num |-> IF spread THEN c.targets ELSE 1,
       idx |-> IF spread THEN t ELSE 0]

Contains(target, a) == a >= target.begin /\ a < target.begin + target.size

(* Mutant: targets alternate within a line. *)
HomeLineOfSector(target, a) == a - target.begin

HomeLine(target, a) == (a - target.begin) \div target.unit

LinearSlice(target, a) == HomeLine(target, a) % target.num

(* The operator ^ of C++, from the highest bit down. *)
BitXor(x, y) ==
  LET high[n \in 0 .. Width] ==
        IF n = 0 THEN 0
        ELSE 2 * high[n - 1]
               + (IF Bit(x, Width - n) = Bit(y, Width - n) THEN 0 ELSE 1)
  IN  high[Width]

(* A line mixed with the seed and with two of its higher parts. *)
Hash(line) ==
  BitXor(BitXor(BitXor(line, HashSeed), line \div Pow2[HashShift]),
         line \div Pow2[2 * HashShift])

XorHashSlice(target, a) == Hash(HomeLine(target, a)) % target.num

Slice(c, target, a) ==
  IF c.interleave = "XOR_HASH" THEN XorHashSlice(target, a)
                               ELSE LinearSlice(target, a)

Matches(c, target, a) ==
  /\ Contains(target, a)
  /\ target.num <= 1 \/ Slice(c, target, a) = target.idx

(* The first of some targets in the list. *)
First(targets) == CHOOSE t \in targets : \A u \in targets : t <= u

(* The last default target of the list, target 0 when there is none. *)
DefaultTarget(c) ==
  LET defaults == {t \in 0 .. c.targets - 1 : Target(c, t).default}
  IN  IF defaults = {} THEN 0
      ELSE CHOOSE t \in defaults : \A u \in defaults : u <= t

(* The first target that matches and is not a default, else the default. *)
DecodeTarget(c, a) ==
  LET hits == {t \in 0 .. c.targets - 1 :
                 ~Target(c, t).default /\ Matches(c, Target(c, t), a)}
  IN  IF hits = {} THEN DefaultTarget(c) ELSE First(hits)

(* The decoder of the reports asks whether interleaving is enabled, which  *)
(* takes a unit too, where the fabric asks only for more than one target.  *)
InterleaveEnabled(target) == target.num > 1 /\ target.unit # 0

TargetForAddress(c, a) ==
  LET hits == {t \in 0 .. c.targets - 1 :
                 /\ ~Target(c, t).default
                 /\ Contains(Target(c, t), a)
                 /\ \/ ~InterleaveEnabled(Target(c, t))
                    \/ Slice(c, Target(c, t), a) = Target(c, t).idx}
  IN  IF hits = {} THEN DefaultTarget(c) ELSE First(hits)

(* The maps that spread every stretch of lines over all targets. *)
Even(c) ==
  \/ c.interleave = "LINEAR"
  \/ c.interleave = "XOR_HASH" /\ \E k \in 0 .. HashShift : c.targets = Pow2[k]

(* Whole lines have one home: all sectors of a line go to the target that  *)
(* is the only one to match, so that the Home Agent of a target sees every *)
(* access to its lines; every target serves some line of each stretch of   *)
(* lines as long as their number (with hashing, when that is a power of    *)
(* two); and the reports count an access where the fabric sends it.        *)
LinesHaveOneHome ==
  Configured =>
    /\ \A a \in 0 .. 2 * Limit - 1 :
         /\ DecodeTarget(cfg, a) \in 0 .. cfg.targets - 1
         /\ DecodeTarget(cfg, a) = TargetForAddress(cfg, a)
         /\ DecodeTarget(cfg, a) = DecodeTarget(cfg, a - (a % LineSize))
         /\ cfg.interleave # "NONE" /\ a < Limit =>
              \A t \in 0 .. cfg.targets - 1 :
                Matches(cfg, Target(cfg, t), a) => t = DecodeTarget(cfg, a)
    /\ Even(cfg) =>
         \A k \in 0 .. Limit \div (LineSize * cfg.targets) - 1 :
           {DecodeTarget(cfg, (k * cfg.targets + i) * LineSize) :
              i \in 0 .. cfg.targets - 1} = 0 .. cfg.targets - 1
=============================================================================
