---------------------------- MODULE SystemCalls ----------------------------
(***************************************************************************)
(* The system calls of a program from end to end: what its library puts    *)
(* into registers or on the stack (userland-rs/src/sys.rs, gui.rs, nt.rs,  *)
(* win32.rs, winapi.rs), the thunk of an imported function (dll.rs), the   *)
(* dispatchers of the POSIX and the NT subsystem (posix_syscalls.rs,       *)
(* nt_syscalls.rs), the kernel API both translate to, the way back of the  *)
(* result, and what the program takes it for.                              *)
(*                                                                         *)
(* Words have their widths: an address of the machine, the 32 bit of a     *)
(* DWORD and the half of it that packs two measures.  Calls whose effect   *)
(* is another module's (fork, waitpid, execve, pipe, dup, poll, signals)   *)
(* are left to it.  Faulty_x is a mistake in x that a run has to find.     *)
(***************************************************************************)
EXTENDS Loader, Sequences

CONSTANTS
  DwordMod,        \* 2^32
  Half,            \* 2^16
  TICK_MS,         \* milliseconds of a tick
  MAX_FDS, FIRST_FREE_FD, MAX_WINDOWS,
  Counts, Delays,  \* bounds: the bytes and the milliseconds programs ask for
  Shapes,          \* bound: the windows programs ask for, <<x, y, width, height>>
  CallOps          \* calls that lead to states the README describes

\* "foreign_rect": a program asks for the place of a window that does not exist.
\* Descriptors, windows and what fits into a program are far below 2^31.
ASSUME CallsAssumption ==
  /\ {DwordMod, Half, TICK_MS, MAX_WINDOWS} \subseteq Nat \ {0}
  /\ DwordMod = Half * Half /\ Half >= 16
  /\ MAX_FDS \in Nat /\ FIRST_FREE_FD \in 0 .. MAX_FDS
  /\ {MAX_FDS, MAX_WINDOWS} \union Counts \subseteq 0 .. DwordMod \div 2 - 1
  /\ Delays \subseteq 0 .. DwordMod - 1
  /\ Shapes \subseteq [1 .. 4 -> 0 .. Half - 1]
  /\ CallOps \subseteq {"foreign_rect"}

VARIABLES
  fds,         \* kernel: the descriptors the program has open
  windows,     \* kernel: the shapes of its windows, by their number
  believes,    \* the program: the descriptors and windows it takes to be its own
  call         \* the call in progress, or the last one

callVars == <<fds, windows, believes, call>>

WordMod == IF arch = "i386" THEN DwordMod ELSE DwordMod * DwordMod
Signed(v, mod) == IF v >= mod \div 2 THEN v - mod ELSE v

\* usize::MAX and 0xFFFFFFFF.
Invalid == WordMod - 1
INVALID_HANDLE == DwordMod - 1

Ok(v) == [ok |-> TRUE, value |-> v]
Error(e) == [ok |-> FALSE, value |-> e]
Unknown == -1   \* a result or a reason that the library does not hand on

Idle == [stage |-> "idle"]

------------------------------------------------------------------------------
(* What programs ask for *)

Handles == 0 .. MAX_FDS
Present == 1     \* names of files, and what else programs hand over by address
Absent == 2
Title == 3
Written == 4
WindowIds == 0 .. MAX_WINDOWS
Request(op, Args) == [op : {op}, args : Args]

Requests ==
  Request("write", Handles \X {0, 1} \X Counts) \union Request("read", Handles \X {0, 1} \X Counts)
  \union Request("open", {Present, Absent} \X BOOLEAN) \union Request("close", {<<h>> : h \in Handles})
  \union Request("sleep", {<<ms>> : ms \in Delays}) \union Request("exit", {<<0>>, <<3>>})
  \union Request("window", Shapes)
  \union (UNION {Request(op, {<<w>> : w \in WindowIds}) : op \in {"bits", "size", "rect", "key"}})
  \union (UNION {Request(op, {<<>>}) : op \in {"flush", "yield", "time", "mouse"}})

\* Each library has the calls its source has.
Offers ==
  [sys    |-> {"write", "read", "open", "close", "sleep", "exit", "window", "bits", "size", "rect", "key", "flush",
               "yield", "mouse"},
   nt     |-> {"write", "read", "open", "close", "sleep", "exit", "yield", "time", "window", "bits", "size", "rect", "key",
               "flush", "mouse"},
   winapi |-> {"write", "read", "open", "close", "sleep", "exit", "time", "window", "bits", "size", "rect", "key",
               "flush", "mouse"}]

Pack(a, b) == ((a * Half) + (b % Half)) % WordMod
Unpack(v) == <<v \div Half, v % Half>>

------------------------------------------------------------------------------
(* The libraries: a call becomes a number and three registers, or a stack *)

OnMachine(i386, x86_64) == IF arch = "i386" THEN i386 ELSE x86_64

\* Fault: one set of numbers for both machines.
Faulty_SysNumber ==
  [exit |-> 1, read |-> 3, write |-> 4, open |-> 5, close |-> 6, window |-> 1280, bits |-> 1281, size |-> 1282,
   flush |-> 1283, key |-> 1284, mouse |-> 1285, yield |-> 1286, rect |-> 1287, sleep |-> 1288]

\* sys.rs: the numbers of Linux, which differ between the machines, and those of
\* this system.
SysNumber ==
  [exit |-> OnMachine(1, 60), read |-> OnMachine(3, 0), write |-> OnMachine(4, 1), open |-> OnMachine(5, 2),
   close |-> OnMachine(6, 3), window |-> 1280, bits |-> 1281, size |-> 1282, flush |-> 1283, key |-> 1284,
   mouse |-> 1285, yield |-> 1286, rect |-> 1287, sleep |-> 1288]

O_CREAT == 64

\* sys.rs and gui.rs: the arguments, with a name or a title as it is.
SysStub(req) ==
  [number |-> SysNumber[req.op], block |-> <<>>,
   regs |-> CASE req.op = "open" -> <<req.args[1], IF req.args[2] THEN O_CREAT ELSE 0>>
              [] req.op = "window" -> <<Title, Pack(req.args[1], req.args[2]), Pack(req.args[3], req.args[4])>>
              [] req.op = "exit" -> <<req.args[1] % WordMod>>
              [] OTHER -> req.args]

\* nt.rs, win32.rs.
NtNumber ==
  [exit |-> 4096, write |-> 4097, open |-> 4098, read |-> 4099, close |-> 4100, sleep |-> 4101, time |-> 4102, yield |-> 4103,
   window |-> 8192, bits |-> 8193, size |-> 8194, rect |-> 8195, flush |-> 8196, key |-> 8197, mouse |-> 8198]

NtStub(req) ==
  [number |-> NtNumber[req.op], block |-> <<>>,
   regs |-> CASE req.op \in {"exit", "sleep"} -> <<0, req.args[1]>>
              [] req.op = "open" -> <<req.args[1], IF req.args[2] THEN 2 ELSE 1>>
              [] req.op = "window" -> <<Title, Pack(req.args[1], req.args[2]), Pack(req.args[3], req.args[4])>>
              [] OTHER -> req.args]

\* dll.rs: the functions of KERNEL32.dll and TCMKGUI.dll, with their ordinals, the
\* services behind them and what the thunk takes from the stack.
Export(dll, name, ordinal, service, slots) ==
  [dll |-> dll, name |-> name, ordinal |-> ordinal, service |-> service, stack_bytes |-> 4 * slots]
DLLS ==
  {Export("KERNEL32", "ExitProcess", 1, 12288, 1), Export("KERNEL32", "Sleep", 2, 12289, 1),
   Export("KERNEL32", "GetTickCount", 3, 12290, 0), Export("KERNEL32", "CloseHandle", 4, 12291, 1),
   Export("KERNEL32", "WriteConsoleA", 5, 12292, 5), Export("KERNEL32", "CreateFileA", 6, 12293, 7),
   Export("KERNEL32", "ReadFile", 7, 12294, 5),
   Export("TCMKGUI", "TcmkCreateWindow", 1, 12304, 5), Export("TCMKGUI", "TcmkGetWindowBits", 2, 12305, 1),
   Export("TCMKGUI", "TcmkGetClientRect", 3, 12306, 1), Export("TCMKGUI", "TcmkGetWindowRect", 4, 12307, 1),
   Export("TCMKGUI", "TcmkUpdateWindow", 5, 12308, 1), Export("TCMKGUI", "TcmkGetMessage", 6, 12309, 1),
   Export("TCMKGUI", "TcmkGetCursorPos", 7, 12310, 0)}

resolve(dll, name) == CHOOSE e \in DLLS : e.dll = dll /\ e.name = name
resolve_ordinal(dll, ordinal) == CHOOSE e \in DLLS : e.dll = dll /\ e.ordinal = ordinal

\* kernel32.def, tcmkgui.def: GetTickCount is imported by its ordinal.
Imported ==
  LET K(name) == resolve("KERNEL32", name)
      G(name) == resolve("TCMKGUI", name)
  IN  [exit |-> K("ExitProcess"), sleep |-> K("Sleep"), time |-> resolve_ordinal("KERNEL32", 3),
       close |-> K("CloseHandle"), write |-> K("WriteConsoleA"), open |-> K("CreateFileA"), read |-> K("ReadFile"),
       window |-> G("TcmkCreateWindow"), bits |-> G("TcmkGetWindowBits"), size |-> G("TcmkGetClientRect"),
       rect |-> G("TcmkGetWindowRect"), flush |-> G("TcmkUpdateWindow"), key |-> G("TcmkGetMessage"),
       mouse |-> G("TcmkGetCursorPos")]

\* winapi.rs: the arguments of the imported function.  On x86_64 a DWORD has what
\* was there in the upper half of its slot; names and addresses fill theirs.
Dword(v, rest) == IF arch = "i386" THEN v ELSE v + rest * DwordMod
Pushed(req, rest) ==
  LET D(v) == Dword(v, rest)
  IN  CASE req.op \in {"write", "read"} -> <<D(req.args[1]), req.args[2], D(req.args[3]), Written, 0>>
        [] req.op = "open" -> <<req.args[1], D(0), D(0), 0, D(IF req.args[2] THEN 2 ELSE 3), D(0), D(0)>>
        [] req.op = "window" -> <<Title>> \o [i \in 1 .. 4 |-> D(req.args[i])]
        [] req.op = "flush" -> <<D(0)>>
        [] OTHER -> [i \in DOMAIN req.args |-> D(req.args[i])]

\* emit_thunk: the block of arguments is the stack of the caller on i386; on x86_64
\* the thunk puts the first four, which came in registers, before the others.
ThunkStub(req, rest) ==
  LET pushed == Pushed(req, rest)
      first == SubSeq(pushed, 1, 4)
      others == SubSeq(pushed, 5, Len(pushed))
  IN  [number |-> Imported[req.op].service, regs |-> <<>>,
       block |-> IF arch = "i386" THEN pushed
                 ELSE (IF Len(pushed) >= 4 THEN first ELSE pushed) \o others]

\* Fault: the thunk of the imported function leaves the arguments on the stack.
Faulty_StackAfter(req) == Len(Pushed(req, 0))

\* What is left of the arguments when the function has returned: on i386 the
\* function takes them from the stack, on x86_64 the caller.
StackAfter(req) ==
  IF arch = "i386" THEN Len(Pushed(req, 0)) - Imported[req.op].stack_bytes \div 4 ELSE 0

\* The program calls one of its libraries.
invoke(lib, req, rest) ==
  /\ call.stage \in {"idle", "returned"}
  /\ req.op \in Offers[lib]
  /\ req.op = "rect" => req.args[1] \in DOMAIN windows \/ "foreign_rect" \in CallOps
  /\ rest = 0 \/ (lib = "winapi" /\ arch = "x86_64")
  /\ call' = [stage |-> "trap", lib |-> lib, req |-> req,
              frame |-> CASE lib = "sys" -> SysStub(req) [] lib = "nt" -> NtStub(req)
                          [] lib = "winapi" -> ThunkStub(req, rest)]
  /\ UNCHANGED <<fds, windows, believes>>

------------------------------------------------------------------------------
(* The dispatchers: numbers and registers become a call of the kernel API *)

KernelCall(op, args) == [op |-> op, args |-> args]

\* posix_syscalls.rs: the numbers of the kernel.
PosixNumber ==
  [exit |-> OnMachine(1, 60), read |-> OnMachine(3, 0), write |-> OnMachine(4, 1), open |-> OnMachine(5, 2),
   close |-> OnMachine(6, 3), window |-> 1280, bits |-> 1281, size |-> 1282, flush |-> 1283, key |-> 1284,
   mouse |-> 1285, yield |-> 1286, rect |-> 1287, sleep |-> 1288]

Ticks(ms) == LargerOf(ms \div TICK_MS, 1)
NoSuchCall == KernelCall("unknown", <<>>)

PosixOp(number) == CHOOSE op \in DOMAIN PosixNumber : PosixNumber[op] = number

\* dispatch of the POSIX subsystem (int 0x80, syscall).
PosixCall(frame) ==
  LET arg(i) == IF i \in DOMAIN frame.regs THEN frame.regs[i] ELSE 0
      op == PosixOp(frame.number)
  IN  CASE \A o \in DOMAIN PosixNumber : PosixNumber[o] # frame.number -> NoSuchCall
        [] op \in {"write", "read"} -> KernelCall(op, <<arg(1) % DwordMod, arg(2), arg(3)>>)
        [] op = "open" -> KernelCall(op, <<arg(1), (arg(2) \div O_CREAT) % 2 = 1>>)
        [] op \in {"close", "exit"} -> KernelCall(op, <<arg(1) % DwordMod>>)
        [] op = "sleep" -> IF arg(1) = 0 THEN KernelCall("yield", <<>>)
                           ELSE KernelCall(op, <<Ticks(arg(1) % DwordMod)>>)
        [] op = "window" -> KernelCall(op, Unpack(arg(2)) \o Unpack(arg(3)))
        [] op \in {"bits", "size", "rect", "key"} -> KernelCall(op, <<arg(1)>>)
        [] op \in {"flush", "yield"} -> KernelCall("yield", <<>>)
        [] op = "mouse" -> KernelCall(op, <<>>)

DwordOf(block, i) == block[i + 1] % DwordMod

\* dispatch and dispatch_win32k: arguments in registers.
NtRegisterCall(frame) ==
  LET arg(i) == IF i \in DOMAIN frame.regs THEN frame.regs[i] ELSE 0
  IN  CASE frame.number = 4096 -> KernelCall("exit", <<arg(2) % DwordMod>>)
        [] frame.number = 4097 -> KernelCall("write", <<arg(1) % DwordMod, arg(2), arg(3)>>)
        [] frame.number = 4098 -> KernelCall("open", <<arg(1), arg(2) = 2>>)
        [] frame.number = 4099 -> KernelCall("read", <<arg(1) % DwordMod, arg(2), arg(3)>>)
        [] frame.number = 4100 -> KernelCall("close", <<arg(1) % DwordMod>>)
        [] frame.number = 4101 -> KernelCall("sleep", <<Ticks(arg(2) % DwordMod)>>)
        [] frame.number = 4102 -> KernelCall("time", <<>>)
        [] frame.number \in {4103, 8196} -> KernelCall("yield", <<>>)
        [] frame.number = 8192 -> KernelCall("window", Unpack(arg(2)) \o Unpack(arg(3)))
        [] frame.number = 8193 -> KernelCall("bits", <<arg(1)>>)
        [] frame.number = 8194 -> KernelCall("size", <<arg(1)>>)
        [] frame.number = 8195 -> KernelCall("rect", <<arg(1)>>)
        [] frame.number = 8197 -> KernelCall("key", <<arg(1)>>)
        [] frame.number = 8198 -> KernelCall("mouse", <<>>)
        [] OTHER -> NoSuchCall

\* dispatch_win32_api: arguments in the block of the thunk.
Win32Call(frame) ==
  LET arg(i) == DwordOf(frame.block, i)
      arg_ptr(i) == frame.block[i + 1]
  IN  CASE frame.number = 12288 -> KernelCall("exit", <<arg(0)>>)
        [] frame.number = 12289 -> IF arg(0) = 0 THEN KernelCall("yield", <<>>)
                                   ELSE KernelCall("sleep", <<Ticks(arg(0))>>)
        [] frame.number = 12290 -> KernelCall("time", <<>>)
        [] frame.number = 12291 -> KernelCall("close", <<arg(0)>>)
        [] frame.number = 12292 -> KernelCall("write", <<arg(0), arg_ptr(1), arg(2)>>)
        [] frame.number = 12293 -> KernelCall("open", <<arg_ptr(0), arg(4) \in {1, 2, 4}>>)
        [] frame.number = 12294 -> KernelCall("read", <<arg(0), arg_ptr(1), arg(2)>>)
        [] frame.number = 12304 -> KernelCall("window", <<arg(1), arg(2), arg(3), arg(4)>>)
        [] frame.number = 12305 -> KernelCall("bits", <<arg(0)>>)
        [] frame.number = 12306 -> KernelCall("size", <<arg(0)>>)
        [] frame.number = 12307 -> KernelCall("rect", <<arg(0)>>)
        [] frame.number = 12308 -> KernelCall("yield", <<>>)
        [] frame.number = 12309 -> KernelCall("key", <<arg(0)>>)
        [] frame.number = 12310 -> KernelCall("mouse", <<>>)
        [] OTHER -> NoSuchCall

\* int 0x2E takes the services of NT and no others.
NtCall(frame) ==
  CASE frame.number < 4096 -> NoSuchCall
    [] frame.number \in 4096 .. 12287 -> NtRegisterCall(frame)
    [] OTHER -> Win32Call(frame)

------------------------------------------------------------------------------
(* The kernel API *)

Answer(out, newFds, newWindows) == [out |-> out, fds |-> newFds, windows |-> newWindows]
Same(out) == Answer(out, fds, windows)

Free == (FIRST_FREE_FD .. MAX_FDS - 1) \ fds
LeastFree == CHOOSE h \in Free : \A other \in Free : h <= other

\* Fewer bytes than asked for, or none, when a file or a pipe ends; a pipe end
\* for the other direction; a file that cannot take more.  Console and keyboard.
Transfers(op, handle, buffer, count) ==
  IF buffer = 0 THEN {Same(Error("Fault"))}
  ELSE IF handle \in fds
       THEN {Same(Ok(n)) : n \in 0 .. count} \union {Same(Error(e)) : e \in {"BadFileDescriptor", "NotSupported"}}
  ELSE IF op = "write" /\ handle \in {1, 2} THEN {Same(Ok(count))}
  ELSE IF op = "read" /\ handle = 0 THEN {Same(Ok(n)) : n \in 0 .. count}
  ELSE {Same(Error("BadFileDescriptor"))}

\* A file that is not there may be made, if the disk takes it.
Opens(name, create) ==
  (IF name = Absent THEN {Same(Error("NotFound"))} ELSE {})
  \union (IF name = Absent /\ ~create THEN {}
          ELSE IF Free = {} THEN {Same(Error("TooManyOpenFiles"))}
          ELSE {Answer(Ok(LeastFree), fds \union {LeastFree}, windows)})

\* The number of a window is one that no program has; there may be none, or no
\* memory, or no screen.
Creates(shape) ==
  {Same(Error("TooManyWindows"))}
  \union (IF shape[3] = 0 \/ shape[4] = 0 THEN {}
         ELSE {Answer(Ok(id), fds, [w \in DOMAIN windows \union {id} |-> IF w = id THEN shape ELSE windows[w]]) :
                 id \in (0 .. MAX_WINDOWS - 1) \ DOMAIN windows})

OfWindow(id, value) == {Same(IF id \in DOMAIN windows THEN Ok(value) ELSE Error("BadWindow"))}

\* Every way one call of the kernel API may end.
Answers(c) ==
  CASE c.op \in {"write", "read"} -> Transfers(c.op, c.args[1], c.args[2], c.args[3])
    [] c.op = "open" -> Opens(c.args[1], c.args[2])
    [] c.op = "close" -> {IF c.args[1] \in fds THEN Answer(Ok(0), fds \ {c.args[1]}, windows)
                          ELSE Same(Error("BadFileDescriptor"))}
    [] c.op = "window" -> Creates(c.args)
    [] c.op = "bits" -> OfWindow(c.args[1], DwordMod \div 2 + c.args[1])
    [] c.op = "size" -> OfWindow(c.args[1], Pack(windows[c.args[1]][3], windows[c.args[1]][4]))
    [] c.op = "rect" -> OfWindow(c.args[1], Pack(windows[c.args[1]][1], windows[c.args[1]][2]))
    [] c.op = "key" -> {Same(Ok(0))} \union {Same(Ok(k)) : k \in (IF c.args[1] < MAX_WINDOWS THEN {7} ELSE {})}
    [] c.op \in {"time", "mouse"} -> {Same(Ok(v)) : v \in {0, Half + 1}}
    [] OTHER -> {Same(Ok(0))}

------------------------------------------------------------------------------
(* The way back *)

\* Linux's numbers; ntstatus_of, with the part of the code that tells them apart.
Errno == [BadFileDescriptor |-> 9, Fault |-> 14, NotFound |-> 2, TooManyOpenFiles |-> 24, NotSupported |-> 22]
NtStatus == [BadFileDescriptor |-> 8, Fault |-> 5, NotFound |-> 52, TooManyOpenFiles |-> 31, NotSupported |-> 2]
STATUS_ERROR == DwordMod - DwordMod \div 4

InvalidOr(out, invalid) == IF out.ok THEN out.value ELSE invalid

\* Fault: the error number loses its sign on the way to a wider register.
Faulty_errno_of(e) == (-Errno[e]) % DwordMod

\* errno is an i32 and takes its sign along.
errno_of(e) == (-Errno[e]) % WordMod

\* The result in the register of the result; the calls for windows have no errno.
PosixReturn(c, out) ==
  CASE c.op \in {"window", "rect"} -> InvalidOr(out, Invalid)
    [] c.op \in {"bits", "size"} -> InvalidOr(out, 0)
    [] c.op = "unknown" -> (-38) % WordMod
    [] OTHER -> IF out.ok THEN Signed(out.value % DwordMod, DwordMod) % WordMod ELSE errno_of(out.value)

\* NTSTATUS, or the value itself for the calls of win32k; the second is EDX.
NtReturn(frame, c, out) ==
  CASE frame.number < 8192 -> IF out.ok THEN 0 ELSE STATUS_ERROR + NtStatus[out.value]
    [] c.op \in {"window", "rect"} -> InvalidOr(out, Invalid)
    [] c.op \in {"bits", "size"} -> InvalidOr(out, 0)
    [] OTHER -> out.value

\* BOOL, a handle or a value; what was read or written goes to an address of the
\* program's.
Win32Return(c, out) ==
  CASE c.op \in {"write", "read", "close"} -> IF out.ok THEN 1 ELSE 0
    [] c.op \in {"open", "window", "rect"} -> InvalidOr(out, Invalid)
    [] c.op \in {"bits", "size"} -> InvalidOr(out, 0)
    [] c.op = "sleep" -> 0
    [] OTHER -> out.value

\* The kernel's part of a call.
dispatch ==
  /\ call.stage = "trap"
  /\ LET c == IF call.lib = "sys" THEN PosixCall(call.frame) ELSE NtCall(call.frame)
     IN  \E answer \in Answers(c) :
           /\ fds' = answer.fds /\ windows' = answer.windows
           /\ call' = [stage |-> IF c.op = "exit" THEN "exited" ELSE "back", lib |-> call.lib, req |-> call.req,
                       did |-> c, out |-> answer.out,
                       register |-> CASE call.lib = "sys" -> PosixReturn(c, answer.out)
                                      [] call.lib = "nt" -> NtReturn(call.frame, c, answer.out)
                                      [] call.lib = "winapi" -> Win32Return(c, answer.out),
                       second |-> IF answer.out.ok THEN answer.out.value ELSE 0]
  /\ UNCHANGED believes

------------------------------------------------------------------------------
(* What the program takes the result for *)

Told(ok, value) == IF ok THEN Ok(value) ELSE Error(Unknown)

\* sys.rs and gui.rs; win32.rs has the same words for windows.
WindowResult(op, v) ==
  CASE op = "window" -> Told(v # Invalid, v)
    [] op = "bits" -> Told(v # 0, v)
    [] op = "rect" -> Told(v # Invalid, v)
    [] OTHER -> Ok(v)

SysResult(op, v) ==
  IF op \in {"write", "read", "open", "close"} THEN Told(Signed(v, WordMod) >= 0, v) ELSE WindowResult(op, v)

\* nt.rs: write_console hands on the status only.
NtResult(op, v, second) ==
  CASE op = "write" -> Told(v % DwordMod = 0, Unknown)
    [] op \in {"open", "read", "close"} -> Told(v = 0, second)
    [] op \in {"time"} -> Ok(second % DwordMod)
    [] OTHER -> WindowResult(op, v)

\* winapi.rs: every type of Win32 has 32 bit but for addresses; window_rect compares
\* with the invalid value of the machine.
WinapiResult(op, v, second) ==
  CASE op \in {"write", "read"} -> Told(v % DwordMod # 0, second % DwordMod)
    [] op = "close" -> Told(v % DwordMod # 0, 0)
    [] op \in {"open", "window"} -> Told(v % DwordMod # INVALID_HANDLE, v % DwordMod)
    [] op = "bits" -> Told(v # 0, v)
    [] op = "rect" -> Told(v % DwordMod # Invalid, v % DwordMod)
    [] OTHER -> Ok(v % DwordMod)

\* The program goes on, with what it now knows of its descriptors and windows.
return ==
  /\ call.stage = "back"
  /\ LET op == call.req.op
         learned == CASE call.lib = "sys" -> SysResult(op, call.register)
                      [] call.lib = "nt" -> NtResult(op, call.register, call.second)
                      [] call.lib = "winapi" -> WinapiResult(op, call.register, call.second)
     IN  /\ call' = [stage |-> "returned", lib |-> call.lib, req |-> call.req, did |-> call.did, out |-> call.out,
                     learned |-> learned, stack |-> IF call.lib = "winapi" THEN StackAfter(call.req) ELSE 0]
         /\ believes' = CASE learned.ok /\ op = "open" -> [believes EXCEPT !.fds = @ \union {learned.value}]
                          [] learned.ok /\ op = "close" -> [believes EXCEPT !.fds = @ \ {call.req.args[1]}]
                          [] learned.ok /\ op = "window" -> [believes EXCEPT !.windows = @ \union {learned.value}]
                          [] OTHER -> believes
  /\ UNCHANGED <<fds, windows>>

\* app_task: when the program is over, what it had open is closed.
ended ==
  /\ call.stage = "exited"
  /\ release_space
  /\ fds' = {} /\ windows' = <<>>
  /\ believes' = [fds |-> {}, windows |-> {}] /\ call' = Idle

------------------------------------------------------------------------------

CallInit == LoadInit /\ fds = {} /\ windows = <<>> /\ believes = [fds |-> {}, windows |-> {}] /\ call = Idle

CallNext ==
  \/ load.stage # "called" /\ LoadNext /\ UNCHANGED callVars
  \/ /\ load.stage = "called"
     /\ \/ \E lib \in DOMAIN Offers, req \in Requests, rest \in {0, 1} : invoke(lib, req, rest)
        \/ dispatch \/ return
     /\ UNCHANGED loaderVars
  \/ load.stage = "called" /\ ended

CallSpec == CallInit /\ [][CallNext]_<<loaderVars, callVars>>

------------------------------------------------------------------------------
(* Properties *)

\* Type invariant.
CallsTypeOK ==
  /\ fds \subseteq FIRST_FREE_FD .. MAX_FDS - 1
  /\ DOMAIN windows \subseteq 0 .. MAX_WINDOWS - 1 /\ \A w \in DOMAIN windows : windows[w] \in Shapes
  /\ call.stage \in {"idle", "trap", "back", "exited", "returned"}
  /\ call.stage = "back" => {call.register, call.second} \subseteq 0 .. WordMod - 1

\* What the kernel may do for a request: a frame that is shown ends with the CPU
\* given up, and so may a sleep of no length.
Meanings(req) ==
  CASE req.op = "flush" -> {KernelCall("yield", <<>>)}
    [] req.op = "sleep" -> (IF req.args[1] = 0 THEN {KernelCall("yield", <<>>)} ELSE {})
                           \union {KernelCall("sleep", <<Ticks(req.args[1])>>)}
    [] OTHER -> {KernelCall(req.op, req.args)}

Done == call.stage \in {"exited", "returned"}

\* "Iki dunyanin ortak noktasi": whichever library a program calls and whichever
\* machine it runs on, the kernel does what was asked for, with the arguments
\* that were passed (SysStub, NtStub, emit_thunk against the dispatchers).
DoneAsAsked == Done => call.did \in Meanings(call.req)

Fallible == {"write", "read", "open", "close", "window", "bits", "rect"}

\* A program is told of a failure exactly when there was one, and otherwise gets
\* the result, as far as its library hands it on (PosixReturn, NtReturn,
\* Win32Return against the libraries).
ResultsArrive ==
  call.stage = "returned" =>
    /\ call.req.op \in Fallible => call.learned.ok = call.out.ok
    /\ call.out.ok /\ call.learned.value # Unknown => call.learned.value = call.out.value

\* Between two calls a program has open exactly what it takes to be open: nothing
\* leaks, and no number is used that is not its own (open, close, create_window).
ViewsAgree ==
  call.stage \in {"idle", "returned"} => believes = [fds |-> fds, windows |-> DOMAIN windows]

\* An imported function returns with the stack its caller had before the call: what
\* dll.rs takes from it is what winapi.rs puts there (emit_thunk).
StackBalanced == call.stage = "returned" => call.stack = 0

\* Between two calls a program and the kernel agree: beside the types, on what is
\* open and on where the stack is (open, close, create_window, emit_thunk).
CallsInv == CallsTypeOK /\ ViewsAgree /\ StackBalanced
====
