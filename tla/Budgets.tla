------------------------------ MODULE Budgets ------------------------------
(***************************************************************************)
(* What a consumer may spend: the RAM and VRAM formulas of src/budget.rs,  *)
(* the tiling decision of src/limits.rs and the sizes src/image.rs         *)
(* accepts.  Pure operators.  Memory is counted in MiB and lengths in      *)
(* units of 1024 pixels, so that width * height * bytes_per_pixel is in    *)
(* MiB; a fraction is a number of hundredths.                              *)
(***************************************************************************)
EXTENDS Cards

VRAM_SHARE == 66
VRAM_SHARE_UNIFIED == 25
POOL_DIV == 16
POOL_MIN == 64
POOL_MAX == 256

Clamp(x, low, high) == IF x < low THEN low ELSE AtMost(x, high)

(* ram_budget_from *)
RamBudgetFrom(total, avail, policy, fraction, reserve) ==
  LET Share(base) == AtMost((base * Clamp(fraction, 0, 100)) \div 100, Minus(base, reserve))
  IN CASE policy = "installed" -> Share(total)
       [] policy = "available" -> Share(avail)
       [] policy = "min" -> AtMost(Share(total), Minus(avail, reserve))

(* ram_budget_or; a failed query is None, UnknownRam. *)
RamBudgetOr(over, ram, policy, fraction, reserve) ==
  IF over # None THEN over
  ELSE IF ram = None THEN None
  ELSE Some(RamBudgetFrom(ram[1].total, ram[1].avail, policy, fraction, reserve))

VramBudgetFrom(headroom, unified) ==
  (headroom * (IF unified THEN VRAM_SHARE_UNIFIED ELSE VRAM_SHARE)) \div 100

(* vram_budget: the free figure, or the size when it is zero. *)
Headroom(info) == IF info.free > 0 THEN info.free ELSE info.total

VramBudget(infos) ==
  IF infos = <<>> \/ Headroom(infos[1]) = 0 THEN None
  ELSE Some(VramBudgetFrom(Headroom(infos[1]), infos[1].unified))

(* plan_vram, None for either error.  A faulty variant forgets the decode  *)
(* pool, which has a floor.                                                *)
PlanWithoutPool(headroom, unified, fixed, oneTile) ==
  LET planned == VramBudgetFrom(headroom[1], unified)
      decode == Clamp(planned \div POOL_DIV, POOL_MIN, POOL_MAX)
      atlas == Minus(planned, fixed)
  IN IF headroom = None \/ atlas < oneTile THEN None ELSE Some([atlas |-> atlas, decode |-> decode])

PlanVram(headroom, unified, fixed, oneTile) ==
  LET planned == VramBudgetFrom(headroom[1], unified)
      decode == Clamp(planned \div POOL_DIV, POOL_MIN, POOL_MAX)
      atlas == Minus(planned, fixed + decode)
  IN IF headroom = None \/ atlas < oneTile THEN None ELSE Some([atlas |-> atlas, decode |-> decode])

-----------------------------------------------------------------------------
(* What one dispatch and one texture can hold. *)

ImageBytes(width, height, bytesPerPixel) == width * height * bytesPerPixel

(* from_wgpu_limits: the binding size, not the larger buffer size. *)
FromWgpuLimits(limits, total, available) ==
  [dim |-> limits.texture, binding |-> limits.binding, total |-> total, available |-> available]

TilingReasonRows(limits, width, height, rowBytes) ==
  IF width > limits.dim \/ height > limits.dim THEN "TextureDimension"
  ELSE IF rowBytes * height > limits.binding THEN "BufferBinding"
  ELSE "none"

TilingReason(limits, width, height, bytesPerPixel) ==
  TilingReasonRows(limits, width, height, width * bytesPerPixel)

(* validate_dims of image.rs, against the device's own limit. *)
ValidateDims(limits, width, height) ==
  IF width = 0 \/ height = 0 THEN "ZeroSize"
  ELSE IF width > limits.texture \/ height > limits.texture THEN "TooLarge"
  ELSE "ok"
=============================================================================
