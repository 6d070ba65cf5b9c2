------------------------------- MODULE MC_Calls -------------------------------
EXTENDS Calls

McLower == ("C:" :> "c:") @@ ("WVM" :> "wvm")

Names == {<<"wvm">>, <<"WVM">>, <<"wvm", "data">>, <<"x">>, <<".">>, <<"..">>, <<>>}

(* The paths of n names below a volume, one separator before each.         *)
Under(volume, separators, names, n) ==
    {volume \o FlattenSeq([i \in 1..n |-> <<s[i]>> \o path[i]]) :
        s \in [1..n -> separators],
        path \in [1..n -> names]}

McGuestRoots ==
    {<<"C:", "\\", "wvm">>, <<"c:", "/", "WVM", "/">>, <<"C:", "\\", "wvm", "\\", "x">>}

McGuestPaths ==
    Under(<<"C:">>, {"\\", "/"}, Names, 2)
        \cup Under(<<"c:">>, {"\\"}, Names, 3) \cup Under(<<"D:">>, {"/"}, Names, 1)

McDefaultRoot == <<"C:", "\\", "wvm", "data">>

McHostRoots == {<<"/", "srv">>, <<"/", "srv", "/", "in", "/">>}

McHostPaths ==
    UNION {Under(<<>>, {"/"}, {<<"srv">>, <<"srv", "x">>, <<"in">>, <<".">>, <<"..">>}, n) :
              n \in 1..3}

McPayloads ==
    LET Payload(n) == [i \in 1..n |-> n]
    IN  {[i \in DOMAIN lengths |-> Payload(lengths[i])] :
            lengths \in UNION {[1..n -> 0..3] : n \in 0..2}}

McArrivals == UNION {[1..n -> {-1, 0, 1, 3, 5}] : n \in 0..3}

McByteStrings == UNION {[1..n -> {0, 1, 107, 255}] : n \in 0..4}

McBase64Texts ==
    UNION {[1..n -> {0, 21, 63, PAD, BLANK, INVALID}] : n \in 0..4}
        \cup {a \o b : a \in [1..4 -> {21, 63, PAD}], b \in [1..4 -> {21, PAD}]}

McSizes == {<<1, 1>>, <<2, 1>>, <<1, 2>>, <<2, 2>>}

(* The first byte of a screen may look like the whitespace, the comment or *)
(* the digit of a header.                                                  *)
McPixels ==
    [size \in McSizes |->
        {[i \in 1..(size[1] * size[2] * 3) |-> IF i = 1 THEN first ELSE 7 * i] :
            first \in {Newline, Space, Hash, 50, 255}}]

Digit(n) == <<48 + n>>

McHeaders ==
    {[size \in McSizes |->
        <<CharP, 54>> \o gap \o Digit(size[1]) \o <<Space>> \o Digit(size[2])
            \o gap \o <<50, 53, 53>> \o <<last>>] :
        gap \in {<<Newline>>, <<Space, Newline>>,
                 <<Newline, Hash, 50, Newline>>, <<Newline, Hash, Newline, Hash, Newline>>},
        last \in {Newline, Space}}

McStateHome == <<"/", "state">>

McRuntimeDir == <<"/", "run">>

McFiles == {<<"/", "iso">>}

McConfigs ==
    [name : {<<>>, <<"w11">>, <<"lab", "/", "w11">>}, state_dir : {{}, {<<"/", "vm">>}},
     disk : {<<"/", "data", "/", "disk">>}, cpus : {0, 2}, memory_mib : {1023, 1024},
     disk_gib : {0, 64}, firmware : {"uefi", "bios"},
     install_iso : {{}, {<<"/", "iso">>}, {<<"/", "gone">>}},
     driver_iso : {{}, {<<"/", "iso">>}}]

McDisks ==
    {[exists |-> exists, readable |-> readable, installed |-> installed,
      boot_signature |-> installed # "none", efi_partition |-> installed = "uefi"] :
        exists, readable \in BOOLEAN, installed \in {"none", "uefi", "bios"}}

=============================================================================
