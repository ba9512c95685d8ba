------------------------------- MODULE NvImei -------------------------------
(***************************************************************************)
(* tools/nv_data-imei.c: the command line parser of main and the commands  *)
(* that read, write and search an IMEI in an nv_data file.                 *)
(*                                                                         *)
(* A command line is a sequence of tokens as getopt_long returns them,     *)
(* each with the number of argv elements it takes.  A byte is the pair of  *)
(* its nibbles, high then low; a digest is the bytes it was computed of.   *)
(* What is printed is left out, but for the IMEI shown and the offsets     *)
(* found.                                                                  *)
(***************************************************************************)
EXTENDS Integers, Sequences, FiniteSets, FiniteSetsExt

CONSTANTS
    Tokens, MaxTokens, \* the lines tried on one file, and how long they are
    Sample,     \* that file
    Runs, Files, \* the lines tried on every file, and the files
    Beyond,     \* bytes that may follow a buffer in memory
    Size,       \* XMM616_NV_DATA_SIZE
    ChunkSize,  \* XMM616_NV_DATA_CHUNK_SIZE
    ImeiLength, \* IMEI_LENGTH
    UIntRange   \* 2^32: the offset of file_data_write is an unsigned int

SizesAssumption ==
    /\ ImeiLength \in Nat /\ ImeiLength % 2 = 1
    /\ ChunkSize \in Nat \ {0} /\ Size \in Nat /\ Size >= ChunkSize
    /\ UIntRange \in Nat /\ UIntRange > Size

CodeLength == (ImeiLength + 1) \div 2

Bytes == (0..15) \X (0..15)

FilesAssumption ==
    /\ Files \union {Sample} \subseteq Seq(Bytes)
    /\ \A b \in Beyond : b \in Seq(Bytes) /\ Len(b) >= CodeLength

(* The tokens: an argument, -h, an unknown option, -i and -o. *)
Token(k, n, name, imei, o) ==
    [kind |-> k, n |-> n, name |-> name, imei |-> imei, offset |-> o]
Arg(name)    == Token("arg", 1, name, <<>>, 0)
HelpOption   == Token("h", 1, "none", <<>>, 0)
Unknown      == Token("?", 1, "none", <<>>, 0)
ImeiOption(imei, n) == Token("i", n, "none", imei, 0)
OffsetOption(o, n)  == Token("o", n, "none", <<>>, o)

(* What an OFFSET that is not a natural number in range is. *)
Negative == -1
TooBig   == -2
Junk     == -3

(* Only -i and -o may take a second element, their value. *)
IsToken(t) ==
    /\ t.kind \in {"arg", "h", "?", "i", "o"}
    /\ t.n = 1 \/ (t.kind \in {"i", "o"} /\ t.n = 2)
    /\ t.kind = "arg" => t = Arg(t.name)
    /\ t.imei \in Seq(Int) /\ t.offset \in Nat \union {Negative, TooBig, Junk}

LinesAssumption ==
    /\ MaxTokens \in Nat /\ \A t \in Tokens : IsToken(t)
    /\ \A l \in Runs :
          Len(l) \in Nat /\ DOMAIN l = 1..Len(l) /\ \A k \in 1..Len(l) : IsToken(l[k])

(* The table of commands. *)
NeedsFile == {"read-imei", "write-imei", "bruteforce-imei"}
CommandNames   == {"list-supported"} \union NeedsFile
HasImei   == {"write-imei", "bruteforce-imei"}
HasOffset == {"read-imei", "write-imei"}
NeedsImei == HasImei
NeedsOffset == {"write-imei"}

VARIABLES
    line,     \* the command line
    denied,   \* FILE cannot be opened
    before,   \* the files when the tool was started
    disk,     \* the files: a function from the paths that exist
    md5,      \* the .md5 files, likewise
    pc, exit,
    next,     \* tokens parsed so far
    optind,
    command, path, imei, offset,   \* "none" and <<>> while not set
    mem,      \* the buffer of bruteforce_imei_offset and what follows it
    ptr, search_size,
    found,    \* offsets reported
    shown     \* IMEI printed by read-imei

parser == <<next, optind, command, path, imei, offset>>
search == <<mem, ptr, search_size, found>>
vars == <<line, denied, before, disk, md5, pc, exit, parser, search, shown>>

(* The elements of argv that the first k tokens take. *)
Elements(k) == {e \in (1..k) \X {1, 2} : e[2] <= line[e[1]].n}

argc == 1 + Cardinality(Elements(Len(line)))

Init ==
    /\ \/ /\ \E n \in 0..MaxTokens : line \in [1..n -> Tokens]
          /\ disk = [FILE |-> Sample] /\ denied = FALSE
       \/ /\ line \in Runs /\ denied \in BOOLEAN
          /\ disk = <<>> \/ \E f \in Files : disk = [FILE |-> f]
    /\ before = disk /\ md5 = disk
    /\ pc = "parse" /\ exit = "none" /\ next = 0 /\ optind = 1
    /\ command = "none" /\ path = "none" /\ imei = <<>> /\ offset = <<>>
    /\ mem = <<>> /\ ptr = 0 /\ search_size = 0 /\ found = {} /\ shown = <<>>

Exit(code) == pc' = "exit" /\ exit' = code

(* errno_to_sysexit: any other error is an assertion that fails. *)
SysExit(rc) == Exit(CASE rc = "0" -> "OK" [] rc = "EACCES" -> "NOINPUT"
                      [] rc = "-EINVAL" -> "USAGE" [] OTHER -> "abort")

(***************************************************************************)
(* main: one step per token.                                               *)
(***************************************************************************)
Current == line[next + 1]

Parsing(kind) ==
    /\ pc = "parse" /\ next < Len(line) /\ Current.kind = kind
    /\ next' = next + 1 /\ optind' = optind + Current.n
    /\ UNCHANGED <<line, denied, before, disk, md5, search, shown>>

Continue == UNCHANGED <<pc, exit>>

(* The only argument: list-supported, or not enough. *)
ParseSingle ==
    /\ Parsing("arg") /\ optind' = 2 /\ argc = 2
    /\ SysExit(IF Current.name = "list-supported" THEN "0" ELSE "-EINVAL")
    /\ UNCHANGED <<command, path, imei, offset>>

(* The second of several is the command, whatever the first one is. *)
ParseCommand ==
    /\ Parsing("arg") /\ optind' = 3
    /\ path' = IF line[1] = Arg("FILE") THEN "FILE" ELSE "other"
    /\ IF Current.name \in NeedsFile
       THEN command' = Current.name /\ Continue
       ELSE Exit("USAGE") /\ UNCHANGED command
    /\ UNCHANGED <<imei, offset>>

(* The first argument of several waits for the second, later ones are ignored. *)
ParseArgument ==
    /\ Parsing("arg") /\ argc > 2 /\ optind' # 3
    /\ Continue /\ UNCHANGED <<command, path, imei, offset>>

ParseHelp ==
    /\ Parsing("h")
    /\ Exit(IF argc = 2 \/ (argc = 3 /\ line[1].name \in CommandNames)
            THEN "OK" ELSE "USAGE")
    /\ UNCHANGED <<command, path, imei, offset>>

(* An option given twice: the message names the command, set or not. *)
Twice == Exit(IF command = "none" THEN "segv" ELSE "USAGE")

(* Slip: the last of several counts. *)
ParseImeiLast ==
    /\ Parsing("i") /\ imei' = <<Current.imei>> /\ Continue
    /\ UNCHANGED <<command, path, offset>>

ParseImei ==
    /\ Parsing("i")
    /\ imei' = <<Current.imei>>
    /\ IF imei # <<>> THEN Twice ELSE Continue
    /\ UNCHANGED <<command, path, offset>>

ParseOffset ==
    /\ Parsing("o")
    /\ offset' = <<Current.offset>>
    /\ IF offset # <<>> THEN Twice ELSE Continue
    /\ UNCHANGED <<command, path, imei>>

ParseUnknown ==
    /\ Parsing("?") /\ Exit("USAGE")
    /\ UNCHANGED <<command, path, imei, offset>>

(***************************************************************************)
(* get_imei, then get_offset, then the command.                            *)
(***************************************************************************)
ImeiValid(i) == Len(i) = ImeiLength /\ \A d \in DOMAIN i : i[d] \in 0..9

ImeiRefused ==
    \/ command \in NeedsImei /\ imei = <<>>
    \/ command \in HasImei /\ imei # <<>> /\ ~ImeiValid(imei[1])
    \/ command \notin HasImei /\ imei # <<>>

OffsetRefused ==
    \/ command \in NeedsOffset /\ offset = <<>>
    \/ command \in HasOffset /\ offset # <<>> /\ offset[1] \in {Negative, TooBig}
    \/ command \notin HasOffset /\ offset # <<>>

ParseEnd ==
    /\ pc = "parse" /\ next = Len(line)
    /\ IF command = "none" \/ ImeiRefused \/ OffsetRefused
       THEN Exit("USAGE") ELSE pc' = command /\ UNCHANGED exit
    /\ UNCHANGED <<line, denied, before, disk, md5, parser, search, shown>>

(* strtoul of what was given, 0 for what is no number; 0 without -o. *)
Offset == IF offset = <<>> \/ offset[1] = Junk THEN 0 ELSE offset[1]

(***************************************************************************)
(* encode_imei and decode_imei: the first digit over 0xA, then two digits  *)
(* a byte, the second one high.                                            *)
(***************************************************************************)
(* Slip: the digits of a pair are not swapped. *)
EncodeUnswapped(i) ==
    [b \in 1..CodeLength |->
        IF b = 1 THEN <<i[1], 10>> ELSE <<i[2 * b - 2], i[2 * b - 1]>>]

Encode(i) ==
    [b \in 1..CodeLength |->
        IF b = 1 THEN <<i[1], 10>> ELSE <<i[2 * b - 1], i[2 * b - 2]>>]

Decode(code) ==
    [d \in 1..ImeiLength |->
        IF d = 1 THEN code[1][1]
        ELSE code[d \div 2 + 1][IF d % 2 = 0 THEN 2 ELSE 1]]

Nul == <<0, 0>>

(* A file as file_data_write leaves it: what lies between the old end and  *)
(* the offset reads as zeros.                                              *)
Spliced(file, bytes, o) ==
    [b \in 1..(IF o + Len(bytes) > Len(file) THEN o + Len(bytes) ELSE Len(file)) |->
        IF b > o /\ b <= o + Len(bytes) THEN bytes[b - o]
        ELSE IF b <= Len(file) THEN file[b] ELSE Nul]

(* The files with the one that was named replaced. *)
Put(files, content) ==
    [f \in DOMAIN files \union {path} |-> IF f = path THEN content ELSE files[f]]

Openable == path \in DOMAIN disk /\ ~denied

(* file_data_read of size bytes. *)
Readable(size) ==
    Openable /\ size > 0 /\ ChunkSize <= size /\ Len(disk[path]) >= size

(***************************************************************************)
(* read_imei.  The offset is not checked: behind the buffer it finds       *)
(* whatever is there, or nothing that may be read.                         *)
(***************************************************************************)
ReadImei ==
    /\ pc = "read-imei" /\ Readable(Size)
    /\ \/ \E b \in Beyond :
             LET code == [k \in 1..CodeLength |->
                            IF Offset + k <= Size THEN disk[path][Offset + k] ELSE b[k]]
             IN  shown' = Decode(code) /\ SysExit("0")
       \/ Offset + CodeLength > Size /\ Exit("segv") /\ UNCHANGED shown
    /\ UNCHANGED <<line, denied, before, disk, md5, parser, search>>

ReadImeiFails ==
    /\ pc = "read-imei"       \* the file is missing or too short, or a read fails
    /\ SysExit("-1")
    /\ UNCHANGED <<line, denied, before, disk, md5, parser, search, shown>>

(***************************************************************************)
(* write_imei.                                                             *)
(***************************************************************************)
Code   == Encode(imei[1])
Target == Offset % UIntRange
Old    == IF path \in DOMAIN disk THEN disk[path] ELSE <<>>

WriteImei ==
    /\ pc = "write-imei" /\ ~denied
    /\ disk' = Put(disk, Spliced(Old, Code, Target))
    /\ pc' = "md5"
    /\ UNCHANGED <<line, denied, before, md5, exit, parser, search, shown>>

WriteImeiDenied ==
    /\ pc = "write-imei" /\ denied
    /\ SysExit("EACCES")
    /\ UNCHANGED <<line, denied, before, disk, md5, parser, search, shown>>

(* The write stopped part way; errno is then the -1 of write(2). *)
WriteImeiFails ==
    /\ pc = "write-imei" /\ ~denied
    /\ \E k \in 0..(CodeLength - 1) :
          disk' = Put(disk, IF k = 0 THEN Old
                            ELSE Spliced(Old, SubSeq(Code, 1, k), Target))
    /\ SysExit("-1")
    /\ UNCHANGED <<line, denied, before, md5, parser, search, shown>>

(* ipc_nv_data_md5_calculate wants a file of the full size. *)
WriteMd5 ==
    /\ pc = "md5" /\ Len(disk[path]) = Size
    /\ md5' = Put(md5, disk[path])
    /\ SysExit("0")
    /\ UNCHANGED <<line, denied, before, disk, parser, search, shown>>

WriteMd5NoSum ==
    /\ pc = "md5"             \* the size is wrong, or reading failed
    /\ SysExit("-1")
    /\ UNCHANGED <<line, denied, before, disk, md5, parser, search, shown>>

(* The old sum is unlinked before the new one is written. *)
WriteMd5Fails ==
    /\ pc = "md5" /\ Len(disk[path]) = Size
    /\ md5' = [p \in DOMAIN md5 \ {path} |-> md5[p]]
    /\ \/ SysExit("-1")
       \/ SysExit("EACCES")   \* the directory may not be written
    /\ UNCHANGED <<line, denied, before, disk, parser, search, shown>>

(***************************************************************************)
(* bruteforce_imei_offset.                                                 *)
(***************************************************************************)
SearchStart ==
    /\ pc = "bruteforce-imei" /\ Openable /\ Readable(Len(disk[path]))
    /\ \E b \in Beyond : mem' = disk[path] \o b
    /\ ptr' = 0 /\ search_size' = Len(disk[path]) /\ pc' = "search"
    /\ UNCHANGED <<line, denied, before, disk, md5, exit, parser, found, shown>>

SearchStartFails ==
    /\ pc = "bruteforce-imei"
    /\ SysExit(IF denied THEN "EACCES" ELSE "-1")   \* or ENOENT
    /\ UNCHANGED <<line, denied, before, disk, md5, parser, search, shown>>

(* memchr *)
Hits == {p \in ptr..(ptr + search_size - 1) : mem[p + 1] = Code[1]}

(* strncmp: bytes are compared up to the first NUL both have. *)
Same(p) ==
    \A k \in 1..CodeLength :
        (\A j \in 1..(k - 1) : Code[j] # Nul) => mem[p + k] = Code[k]

(* Slip: the last place is left out. *)
SearchSizeShort(p) == Len(disk[path]) - p - CodeLength - 1

SearchSize(p) == Len(disk[path]) - p

SearchStep ==
    /\ pc = "search" /\ Hits # {}
    /\ LET p == Min(Hits)
       IN  /\ found' = IF Same(p) THEN found \union {p} ELSE found
           /\ search_size' = SearchSize(p)
           /\ ptr' = p + 1
    /\ UNCHANGED <<line, denied, before, disk, md5, pc, exit, parser, mem, shown>>

SearchEnd ==
    /\ pc = "search" /\ Hits = {}
    /\ SysExit("0")
    /\ UNCHANGED <<line, denied, before, disk, md5, parser, search, shown>>

Done == pc = "exit" /\ UNCHANGED vars

Next ==
    \/ ParseSingle \/ ParseCommand \/ ParseArgument \/ ParseHelp
    \/ ParseImei \/ ParseOffset \/ ParseUnknown \/ ParseEnd
    \/ ReadImei \/ ReadImeiFails
    \/ WriteImei \/ WriteImeiDenied \/ WriteImeiFails
    \/ WriteMd5 \/ WriteMd5NoSum \/ WriteMd5Fails
    \/ SearchStart \/ SearchStartFails \/ SearchStep \/ SearchEnd
    \/ Done

Spec == Init /\ [][Next]_vars

(***************************************************************************)
(* Properties.                                                             *)
(***************************************************************************)
Given(kind) == {i \in DOMAIN line : line[i].kind = kind}

(* The lines main runs: something of one element, whatever it is, COMMAND  *)
(* and then, in any order, the options the command has, each at most once, *)
(* with an IMEI of digits and an OFFSET that is not out of range; further  *)
(* arguments are passed over.                                              *)
Shaped(cmd) ==
    /\ Len(line) >= 2 /\ line[1].n = 1
    /\ line[2] = Arg(cmd) /\ cmd \in NeedsFile
    /\ Given("h") = {} /\ Given("?") = {}
    /\ Cardinality(Given("i")) = IF cmd \in HasImei THEN 1 ELSE 0
    /\ \A i \in Given("i") : ImeiValid(line[i].imei)
    /\ Cardinality(Given("o"))
         \in IF cmd \in NeedsOffset THEN {1} ELSE IF cmd \in HasOffset THEN {0, 1} ELSE {0}
    /\ \A i \in Given("o") : line[i].offset \notin {Negative, TooBig}

(* The file that the first element names, and the files without it. *)
FileNamed == IF line[1] = Arg("FILE") THEN "FILE" ELSE "other"
Others(files) == [f \in DOMAIN files \ {FileNamed} |-> files[f]]

(* nv_data-imei.c main: parsing token by token runs a command exactly on   *)
(* the lines of the shape above, taken as a whole, with the values given   *)
(* there; on any other line no file changes, and on these none but the one *)
(* that the first element names.  This is less than the usage text says,   *)
(* "nv_data-imei FILE COMMAND [OPTIONS]" (nv_data-imei.c:398):            *)
(* an option in FILE's place is taken for the name of the file, further    *)
(* arguments are passed over, and an OFFSET that is no number counts as 0. *)
RunsWhatIsAsked ==
    /\ \A cmd \in NeedsFile :
          /\ pc = cmd => /\ Shaped(cmd)
                         /\ \A i \in Given("i") : imei = <<line[i].imei>>
                         /\ \A i \in Given("o") : offset = <<line[i].offset>>
          /\ exit = "USAGE" => ~Shaped(cmd)
    /\ disk # before => Shaped("write-imei") /\ Others(disk) = Others(before)

Before == IF path \in DOMAIN before THEN before[path] ELSE <<>>

(* nv_data-imei.c write_imei: when the tool says OK, the IMEI can be read  *)
(* back where it was put, every other byte is what it was, and the .md5    *)
(* file is that of the new content.  (It is put at the offset modulo 2^32, *)
(* the range of the unsigned int that file_data_write takes.)              *)
WrittenReadsBack ==
    exit = "OK" /\ command = "write-imei" =>
        LET new == disk[path]
        IN  /\ Len(new) = Size
            /\ Decode(SubSeq(new, Target + 1, Target + CodeLength)) = imei[1]
            /\ \A b \in 1..Size \ (Target + 1)..(Target + CodeLength) :
                  b <= Len(Before) => new[b] = Before[b]
            /\ path \in DOMAIN md5 /\ md5[path] = new

Occurrences(file, code) ==
    {p \in 0..(Len(file) - Len(code)) : SubSeq(file, p + 1, p + Len(code)) = code}

(* nv_data-imei.c bruteforce_imei_offset: no place that holds the IMEI is  *)
(* missed, a second one and one at the very end included, and nothing else *)
(* is reported inside the file unless the code of the IMEI has a zero      *)
(* byte, behind which strncmp does not look.                               *)
FindsEveryPlace ==
    exit = "OK" /\ command = "bruteforce-imei" =>
        /\ Occurrences(disk[path], Code) \subseteq found
        /\ (\A k \in 1..CodeLength : Code[k] # Nul) =>
              \A p \in found : p + CodeLength <= Len(disk[path]) =>
                 p \in Occurrences(disk[path], Code)
=============================================================================
