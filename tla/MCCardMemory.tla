---------------------------- MODULE MCCardMemory ----------------------------
(* The machines CardMemory is checked on. *)
EXTENDS CardMemory

CONSTANTS t1, t2, s1, s2

Card(vendor, model, dedicated, shared) ==
  [name |-> [vendor |-> vendor, model |-> model], dedicated |-> dedicated, shared |-> shared,
   software |-> FALSE, spill |-> 100, own |-> 128, published |-> {}, classes |-> {}, workingSet |-> 6000,
   work |-> <<[engine |-> "3D", value |-> 70], [engine |-> "3D", value |-> 60], [engine |-> "NPU", value |-> 40]>>,
   heaps |-> <<[local |-> FALSE, size |-> 9000], [local |-> TRUE, size |-> 256], [local |-> TRUE, size |-> dedicated]>>]

Rtx == Card("nvidia", "rtx", 8192, 4096)
Titan == Card("nvidia", "titan", 16384, 4096)
Radeon == [Card("amd", "radeon", 4096, 4096) EXCEPT !.published = {"busy", "memory"}]
Integrated == Card("intel", "uhd", 0, 4096)
Warp == [Card("microsoft", "warp", 0, 4096) EXCEPT !.software = TRUE]
Arc == [Card("intel", "arc", 2048, 4096) EXCEPT !.published = {"busy"}]
M4 == [Card("apple", "m4", 0, 8000) EXCEPT !.published = {"busy", "memory"}, !.classes = {"AGXAccelerator"}]
MacUhd == [Card("intel", "uhd", 1536, 0) EXCEPT !.published = {"busy"}, !.classes = {"IOAccelerator"}]
MacRadeon == [Card("amd", "radeon", 4096, 0) EXCEPT !.published = {"busy", "memory"}, !.classes = {"IOAccelerator"}]

Adapter(c, handle, api, luid, ext) ==
  [card |-> c, handle |-> handle, api |-> api, vk11 |-> TRUE, luid |-> luid, ext |-> ext]

(* 8192 x 4096, a strip wider than any texture, nothing at all. *)
MCJobs ==
  << [width |-> 8, height |-> 4, tile |-> 16, over |-> None, policy |-> "min", fraction |-> 50, reserve |-> 2000],
     [width |-> 2, height |-> 4, tile |-> 16, over |-> None, policy |-> "available", fraction |-> 120, reserve |-> 0],
     [width |-> 20, height |-> 1, tile |-> 64, over |-> None, policy |-> "installed", fraction |-> 75, reserve |-> 9000],
     [width |-> 0, height |-> 4, tile |-> 0, over |-> Some(100), policy |-> "min", fraction |-> 50, reserve |-> 0] >>

Machine(os, cards, falters) ==
  [os |-> os, cards |-> cards, order |-> [c \in DOMAIN cards |-> c], pci |-> [c \in DOMAIN cards |-> c],
   interfaces |-> {"dxgi", "pdh", "nvml", "drm", "iokit", "system_profiler", "sysctl", "vm_stat", "ram"}, falters |-> falters,
   gpus |-> [c \in DOMAIN cards |-> Adapter(c, c, IF os = "macos" THEN "metal" ELSE "vulkan", os = "windows", TRUE)],
   ram |-> 8000, free |-> 3000, jobs |-> MCJobs, limits |-> [texture |-> 16, binding |-> 128],
   samplers |-> {}, planners |-> {}, watchers |-> {}, sharers |-> {}]

MCMachines ==
  { (* Twins, listed behind a larger card. *)
    [Machine("windows", <<Rtx, Titan, Rtx>>, {"pdh", "nvml"}) EXCEPT !.samplers = {t1}],
    (* One NVIDIA card, which is not the first. *)
    [Machine("windows", <<Radeon, Rtx>>, {"dxgi", "nvml"}) EXCEPT !.samplers = {t1}],
    (* The driver of its Vulkan adapter has no LUID. *)
    [Machine("windows", <<Integrated, Rtx>>, {"pdh"}) EXCEPT !.planners = {t1},
       !.gpus = <<Adapter(1, 1, "vulkan", FALSE, TRUE), Adapter(2, 2, "dx12", TRUE, TRUE)>>],
    (* Each thread has its own caches; beside the software rasterizer. *)
    [Machine("windows", <<Integrated, Warp>>, {"pdh"}) EXCEPT !.samplers = {t1, t2}],
    [Machine("linux", <<Rtx, Radeon, Arc>>, {"nvml", "drm"}) EXCEPT !.samplers = {t1}],
    [Machine("linux", <<Radeon, Rtx>>, {"nvml", "drm", "ram"}) EXCEPT !.planners = {t1}],
    [Machine("macos", <<M4>>, {"iokit", "sysctl"}) EXCEPT !.samplers = {t1}],
    [Machine("macos", <<M4>>, {"sysctl", "vm_stat"}) EXCEPT !.planners = {t1}],
    [Machine("macos", <<MacUhd, MacRadeon>>, {"iokit", "system_profiler"}) EXCEPT !.samplers = {t1}, !.planners = {t2}],
    (* Two instances of wgpu have numbered two cards alike. *)
    [Machine("windows", <<Rtx, Rtx>>, {"dxgi"}) EXCEPT !.watchers = {t1, t2},
       !.gpus = <<Adapter(1, 1, "dx12", TRUE, TRUE), Adapter(2, 1, "vulkan", TRUE, TRUE)>>],
    [Machine("linux", <<Rtx, Radeon>>, {"drm"}) EXCEPT !.watchers = {t1, t2},
       !.gpus = <<Adapter(1, 1, "vulkan", FALSE, TRUE), Adapter(2, 1, "vulkan", FALSE, FALSE)>>],
    [Machine("macos", <<M4>>, {}) EXCEPT !.watchers = {t1, t2}],
    [Machine("windows", <<Rtx>>, {}) EXCEPT !.sharers = {t1, t2}] }
=============================================================================
