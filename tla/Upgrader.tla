------------------------------ MODULE Upgrader ------------------------------
(***************************************************************************)
(* The program as a whole (main of qfirehose.c): find the module, get it   *)
(* into emergency download mode, run the stages, report progress.  What a  *)
(* stage does with the module is the subject of the modules Sahara and     *)
(* Firehose; here it succeeds or fails.                                    *)
(*                                                                         *)
(*   the module:  normal --diag request--> away --> edl                    *)
(*                dump   --diag request--> away --> edl                    *)
(*                loader --stream download--> away --> edl                 *)
(***************************************************************************)
EXTENDS Progress, Md5

CONSTANTS Attempts,   \* edl_retry: times the device is opened
          Packages,   \* firmware packages: sequences of records size, data
          Directories,   \* firmware directories: what md5.txt lists, the files, the
                      \*   kinds of programmers among them, and whether the
                      \*   check is asked for (check_hash)
          Payload,    \* bytes reported at a time
          Modules     \* modes the module may be found in

ASSUME UpgraderAssumption ==
    /\ Attempts \in Nat \ {0}
    /\ Packages \subseteq Seq([size : Nat \ {0}, data : Nat]) \ { << >> }
    /\ Payload \in Nat \ {0}
    /\ Modules \subseteq {"normal", "dump", "loader", "edl"}

VARIABLES
    package,        \* the images of the package; data: the bytes of the file that
                    \*   are sent, fewer than its size for a sparse image and for
                    \*   gpt_empty0.bin
    directory,      \* the firmware directory
    job,            \* upgrade over usb or over pcie, or serve the device over tcp
    pc,             \* where main is
    attempts,       \* edl_retry
    handle, seen,   \* usb_handle, and the mode the last device opened was in
    image, left,    \* firehose: image being sent, bytes of it still to be sent
    retval,         \* what main returns
    module          \* the module: its mode

host == <<package, directory, job, pc, attempts, handle, seen, image, left, retval>>
vars == <<host, module, progress>>

\* What the first n images add up to.
FileSizes(p) ==
    LET filesizes[n \in 0 .. Len(p)] == IF n = 0 THEN 0 ELSE filesizes[n - 1] + p[n].size
    IN  filesizes
Total(p) == FileSizes(p)[Len(p)]

Init ==
    /\ package \in Packages /\ directory \in Directories
    /\ job \in {"usb", "pcie", "serve"}
    /\ pc = "start" /\ attempts = Attempts
    /\ handle = "null" /\ seen = "none"
    /\ image = 1 /\ left = 0
    /\ retval = "none"
    /\ module \in Modules
    /\ ProgressInit

-----------------------------------------------------------------------------
Goto(l) == pc' = l
Still(l) == pc = l /\ retval = "none"

\* update_transfer_bytes(-1) and return.
Fail == retval' = "failed" /\ Report(-1)

Begin ==
    /\ Still("start")
    /\ Report(0)
    /\ Goto("check")
    /\ UNCHANGED <<package, directory, job, attempts, handle, seen, image, left, retval, module>>

\* The package, the programmer, and the module's path or port.
CheckFails ==
    /\ Still("check")
    /\ Fail
    /\ UNCHANGED <<package, directory, job, pc, attempts, handle, seen, image, left, module>>

\* The names that a programmer may have, in the order they are looked for: what a
\* name begins and ends with.
Programmers ==
    << <<"prog_nand_firehose_", ".mbn">>, <<"prog_emmc_firehose_", ".mbn">>,
       <<"prog_firehose_", ".mbn">>, <<"prog_firehose_", ".elf">>, <<"firehose-prog", ".mbn">>,
       <<"prog_", ".mbn">>, <<"xbl_s_devprg_ns_SA52X", ".melf">> >>

\* A file whose name begins and ends so.
qfile_find_file(d, name) == name \in d.programmers

\* The first of them that the directory has, if it has one.
find_firehose_mbn(d) ==
    LET found == SelectSeq(Programmers, LAMBDA name : qfile_find_file(d, name))
    IN  IF found = << >> THEN << >> ELSE << found[1] >>

\* What serves the device needs no package.
Vouched == [d \in Directories |-> d.check => md5_check(d)]

Md5Fails ==
    /\ Still("check") /\ job # "serve" /\ ~Vouched[directory]
    /\ Fail /\ Goto("refused")
    /\ UNCHANGED <<package, directory, job, attempts, handle, seen, image, left, module>>

\* No package is named: usage() exits with 0 and reports nothing more.
Usage ==
    /\ Still("check") /\ job # "serve"
    /\ retval' = "usage"
    /\ UNCHANGED <<package, directory, job, pc, attempts, handle, seen, image, left, module, progress>>

CheckPasses ==
    /\ Still("check")
    /\ job = "serve" \/ (Vouched[directory] /\ find_firehose_mbn(directory) # << >>)
    /\ Goto(IF job = "pcie" THEN "pcie" ELSE "open")
    /\ UNCHANGED <<package, directory, job, attempts, handle, seen, image, left, retval, module, progress>>

\* qpcie_open switches the module itself and loads the programmer.
OpenPcie ==
    /\ Still("pcie")
    /\ handle' = "open" /\ seen' = "edl" /\ module' = "edl"
    /\ Goto("firehose")
    /\ UNCHANGED <<package, directory, job, attempts, image, left, retval, progress>>

OpenPcieFails ==
    /\ Still("pcie")
    /\ Fail
    /\ UNCHANGED <<package, directory, job, pc, attempts, handle, seen, image, left, module>>

\* One interface is download mode, except for a 5G module's dump mode.
ToSwitch(m) == m \in {"normal", "dump"}

\* Mutant: the device stays open through the switch.
SwitchKeepsHandle == handle' = "open"

\* switch_to_edl_mode, close, forget the handle.
AfterSwitch == handle' = "null"

AfterLoop == IF job = "serve" THEN "serve" ELSE "sahara"

\* A turn of the loop at __edl_retry that opens the device.
OpenDevice ==
    /\ Still("open") /\ attempts > 0
    /\ module # "away"
    /\ attempts' = attempts - 1
    /\ seen' = module
    /\ IF ToSwitch(module)
       THEN /\ AfterSwitch /\ Goto("open")
            /\ module' \in {module, "away"}   \* it may not listen
       ELSE handle' = "open" /\ Goto(AfterLoop) /\ module' = module
    /\ UNCHANGED <<package, directory, job, image, left, retval, progress>>

\* A turn that does not: the device is rebooting, or claimed by a driver.
OpenDeviceFails ==
    /\ Still("open") /\ attempts > 0
    /\ attempts' = attempts - 1
    /\ handle' = "null" /\ seen' = "none"
    /\ UNCHANGED <<package, directory, job, pc, image, left, retval, module, progress>>

\* Two modules came back in download mode at once (USB 3 only).
Ambiguous ==
    /\ Still("open") /\ attempts > 0
    /\ module = "away"
    /\ attempts' = attempts - 1
    /\ handle' = "null"
    /\ Fail
    /\ UNCHANGED <<package, directory, job, pc, seen, image, left, module>>

\* After the loop.  The pointer that stream download leaves behind is not NULL,
\* though its device is closed.
NoMoreAttempts ==
    /\ Still("open") /\ attempts = 0
    /\ IF handle = "null"
       THEN Fail /\ pc' = pc
       ELSE Goto(AfterLoop) /\ UNCHANGED <<retval, progress>>
    /\ UNCHANGED <<package, directory, job, attempts, handle, seen, image, left, module>>

\* usb2tcp_main returns when its client has gone.
Serve ==
    /\ Still("serve")
    /\ handle' = "closed"
    /\ retval' = "served"
    /\ UNCHANGED <<package, directory, job, pc, attempts, seen, image, left, module, progress>>

\* sahara_main loads the programmer of the mode the device was opened in.
SaharaDone ==
    /\ Still("sahara")
    /\ handle = "open" /\ module = seen /\ module \in {"loader", "edl"}
    /\ Goto(IF seen = "edl" THEN "firehose" ELSE "download")
    /\ UNCHANGED <<package, directory, job, attempts, handle, seen, image, left, retval, module, progress>>

SaharaFails ==
    /\ Still("sahara")
    /\ Fail
    /\ handle' = "closed"
    /\ UNCHANGED <<package, directory, job, pc, attempts, seen, image, left, module>>

\* Mutant: the next stage runs on the loader at once.
StreamDownloadGoesOn ==
    /\ Still("download")
    /\ Goto("firehose")
    /\ UNCHANGED <<package, directory, job, attempts, handle, seen, image, left, retval, module, progress>>

\* Mutant: the attempts are counted from the beginning again.
StreamDownloadAnew ==
    /\ Still("download")
    /\ handle' = "closed"
    /\ module' \in {"away", module}
    /\ attempts' = Attempts
    /\ Goto("open")
    /\ UNCHANGED <<package, directory, job, seen, image, left, retval, progress>>

\* stream_download, whatever it returns; the module restarts when it worked.
StreamDownload ==
    /\ Still("download")
    /\ handle' = "closed"
    /\ module' \in {"away", module}
    /\ Goto("open")
    /\ UNCHANGED <<package, directory, job, attempts, seen, image, left, retval, progress>>

\* firehose_main: the sum of the file sizes is what 100% stands for.
FirehoseBegin ==
    /\ Still("firehose")
    /\ SetAll(Total(package))
    /\ Goto("image") /\ left' = package[image].data
    /\ UNCHANGED <<package, directory, job, attempts, handle, seen, image, retval, module>>

\* fh_send_rawmode_image reports a piece before it sends it.
SendPiece ==
    /\ Still("image") /\ left > 0
    /\ LET n == IF left < Payload THEN left ELSE Payload
       IN  Add(n) /\ left' = left - n
    /\ UNCHANGED <<package, directory, job, pc, attempts, handle, seen, image, retval, module>>

NextImage ==
    /\ Still("image") /\ left = 0 /\ image < Len(package)
    /\ image' = image + 1
    /\ left' = package[image'].data
    /\ UNCHANGED <<package, directory, job, pc, attempts, handle, seen, retval, module, progress>>

\* The last answer: success is reported by nothing but the bytes.
FirehoseDone ==
    /\ Still("image") /\ left = 0 /\ image = Len(package)
    /\ retval' = "ok"
    /\ handle' = "closed"
    /\ UNCHANGED <<package, directory, job, pc, attempts, seen, image, left, module, progress>>

\* A command refused, a time-out or a cable pulled, at any of its steps.
FirehoseFails ==
    /\ Still("firehose") \/ Still("image")
    /\ Fail
    /\ handle' = "closed"
    /\ UNCHANGED <<package, directory, job, pc, attempts, seen, image, left, module>>

-----------------------------------------------------------------------------
\* The module comes back: in download mode, or as it was.
Return ==
    /\ module = "away"
    /\ module' \in {"edl", "normal"}
    /\ UNCHANGED <<host, progress>>

Exited == retval # "none" /\ UNCHANGED vars

Main ==
    \/ Begin \/ CheckFails \/ Md5Fails \/ Usage \/ CheckPasses \/ OpenPcie \/ OpenPcieFails
    \/ OpenDevice \/ OpenDeviceFails \/ Ambiguous \/ NoMoreAttempts
    \/ Serve \/ SaharaDone \/ SaharaFails \/ StreamDownload
    \/ FirehoseBegin \/ SendPiece \/ NextImage \/ FirehoseDone \/ FirehoseFails

Next == Main \/ Return \/ Exited

Spec == Init /\ [][Next]_vars

\* main runs; the module need not come back.
FairSpec == Spec /\ WF_vars(Main)

-----------------------------------------------------------------------------
\* The stages that write to flash run on a device that is open and that was
\* opened in download mode: never on the handle of a device that was closed,
\* or that was asked to reboot, in an earlier turn of the loop.
FlashesDownloadMode ==
    /\ pc \in {"firehose", "image"} /\ retval = "none" => handle = "open" /\ seen = "edl"
    /\ pc = "download" => handle = "open" /\ seen = "loader"

\* main closes what it opened before it returns, and each open of a device is
\* preceded by the close of the one before.
NothingLeftOpen == retval # "none" \/ pc = "open" => handle # "open"

\* md5_check: with the check asked for, a package reaches the module only when
\* every file that its md5.txt names is the file it was made for, wherever the
\* end of the file falls in a block, and only then is it not refused.
ChecksPackage ==
    directory.check =>
        /\ pc \in {"sahara", "download", "firehose", "image"} => Intact(directory)
        /\ pc = "refused" => ~Intact(directory)

\* README, section 1: what a reader finds is the whole of the last percentage
\* that was written, though every text is written over the one before it.
TextIsLast ==
    fd # "unopened" =>
        IF lastPercent = -1 /\ text # Text(-1)
        THEN text = Text(100)
        ELSE text = Text(lastPercent)

\* README, section 1, item 4: an upgrade that meets an error reports -1.
FailureShown == retval = "failed" => text = Text(-1)

\* README, section 1, item 3: the last result of a finished upgrade is 100; one that
\* failed never reads 100, except when everything had been sent.  And what is read is
\* a whole text, the last that was written.
TruthShown ==
    /\ TextIsLast
    /\ retval = "ok" => text = Text(100)
    /\ retval = "failed" /\ text = Text(100) => transferred = all

\* main returns, even if the module never comes back or never leaves a mode.
Ends == <>(retval # "none")
=============================================================================
