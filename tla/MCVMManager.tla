---------------------------- MODULE MCVMManager ----------------------------
(* Four clicks, enough to run twice or to stop and pause around a run.  A  *)
(* page has 4 cells, a header 3, 2 MB are 4 cells.                         *)
EXTENDS VMManager

Raw == [magic |-> FALSE, version |-> 0, page |-> 1, header |-> 0, kernel |-> 5, ramdisk |-> 0,
        second |-> 0, dtbo |-> 0, dtb |-> 0, cmdline |-> ""]
Image(version) ==
    [Raw EXCEPT !.magic = TRUE, !.version = version, !.page = 4, !.header = 3, !.ramdisk = 3,
                !.cmdline = "image"]
Plain == [kernel |-> Image(0), tree |-> 0, cmdline |-> "typed", rootfs |-> FALSE, cpus |-> 2,
          ram |-> 24, dry |-> FALSE, backends |-> <<"tcg", "kvm">>]

MCConfigs ==
    <<Plain,
      [Plain EXCEPT !.cmdline = "", !.tree = 4, !.rootfs = TRUE],
      [Plain EXCEPT !.kernel = Raw, !.tree = 2, !.cpus = 1, !.backends = <<"tcg">>],
      [Plain EXCEPT !.kernel = [Image(0) EXCEPT !.kernel = 9], !.ram = 20],
      [Plain EXCEPT !.kernel.kernel = 8, !.cmdline = "", !.backends = <<"hvf", "tcg">>],
      [Plain EXCEPT !.kernel = [Image(0) EXCEPT !.kernel = 8, !.ramdisk = 0], !.tree = 13, !.ram = 16],
      [Plain EXCEPT !.kernel = [Image(2) EXCEPT !.second = 2, !.dtbo = 1, !.dtb = 3], !.tree = 4],
      [Plain EXCEPT !.kernel = [Image(4) EXCEPT !.dtb = 2], !.dry = TRUE],
      [Plain EXCEPT !.kernel = [Raw EXCEPT !.kernel = 4], !.cmdline = "", !.backends = <<>>]>>

MCVcpuExits == {"handled", "halt", "error"}
MCNoHalt == {"handled"}
=============================================================================
