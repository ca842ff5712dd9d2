---------------------------- MODULE ForkTables ----------------------------
(***************************************************************************)
(* The tables R of the tx_*.py modules of a-1018 and a-1019 that forktx.py *)
(* and its successors run, row for row.  A gate of the source (HAS288, a   *)
(* Change-Id in ANC, a function only some commits have) is written as the  *)
(* first commit of the stack it holds for.  The rows of tx_1019c that      *)
(* compute their new text (R_FN) are left out.                             *)
(***************************************************************************)
EXTENDS SeriesEdit

\* a-1018/tx_156.py:11-143
tx_156 ==
  << r("libscan_ldiskfs.c#0", "libscan_ldiskfs", <<1>>, <<2>>),
     r("libscan_ldiskfs.c#1", "libscan_ldiskfs", <<3>>, <<4>>),
     r("libscan_ldiskfs.c#2", "libscan_ldiskfs", <<5>>, <<6>>),
     r("scan_device.c#0", "scan_device", <<7>>, <<8>>),
     r("scan_device.c#1", "scan_device", <<9>>, <<10>>),
     r("scan_device.3#0", "scan_device.3", <<11>>, <<12>>) >>

\* a-1018/tx_288.py:15-133
tx_288 ==
  << from(r("scan_namespace.3#0", "scan_namespace.3", <<1>>, <<1, 2>>), C288),
     from(r("scan_rec_path.3#0", "scan_rec_path.3", <<3>>, <<4>>), C288),
     from(r("scan_device.c#0", "scan_device", <<5>>, <<6>>), C288),
     from(r("scan_device.c#1", "scan_device", <<7>>, <<8>>), C288),
     from(r("scan_device.c#2", "scan_device", <<9>>, <<10>>), C288),
     from(r("scan_device.c#3", "scan_device", <<11>>, <<12>>), C288),
     from(r("scan_device.c#4", "scan_device", <<13>>, <<14>>), C288),
     from(r("scan_device.c#5", "scan_device", <<15>>, <<>>), C288),
     from(r("lustreapi_internal.h#0", "lustreapi_internal.h", <<16>>,
               <<17>>), C288),
     from(r("pfind.c#0", "pfind", <<18>>, <<19>>), C288) >>

\* a-1018/tx_419.py:45-188
tx_419 ==
  << from(r("pfind.c#0", "pfind", <<1>>, <<1, 2>>), C419),
     from(r("pfind.c#1", "pfind", <<3>>, <<4>>), C419),
     from(r("pfind.c#2", "pfind", <<5>>, <<6>>), C419),
     from(r("pfind.c#3", "pfind", <<7>>, <<8, 7>>), C419),
     from(r("pfind.c#4", "pfind", <<9>>, <<10>>), C419),
     from(r("pfind.c#5", "pfind", <<11>>, <<12>>), C419),
     from(r("pfind.c#6", "pfind", <<13>>, <<14>>), C419),
     from(r("pfind.c#7", "pfind", <<15>>, <<15, 16>>), C419),
     from(r("pfind.c#8", "pfind", <<17>>, <<18>>), C419),
     from(r("pfind.c#9", "pfind", <<19>>, <<20>>), C419),
     r("sanity.sh#0", "sanity.sh", <<21>>, <<22>>),
     r("sanity.sh#1", "sanity.sh", <<23>>, <<24>>),
     r("lfs-find.1#0", "lfs-find.1", <<25>>, <<25, 26>>),
     r("find_since.3#0", "find_since.3", <<27>>, <<28>>) >>

\* a-1018/tx_b.py:50-186
tx_b_1 ==
  << from(r("purged-doc", "pfind", <<1>>, <<2>>), C443),
     from(r("purged-body", "pfind", <<3>>, <<4>>), C443),
     from(r("empty-fn", "pfind", <<5>>, <<6>>), C443),
     from(r("check-doc", "pfind", <<7>>, <<8>>), C443),
     from(r("check-sig", "pfind", <<9>>, <<10>>), C443),
     from(r("check-empty", "pfind", <<11>>, <<12>>), C443),
     from(r("check-purged", "pfind", <<13>>, <<14>>), C443),
     from(r("decl", "pfind", <<15>>, <<16>>), C443),
     from(r("alloc", "pfind", <<17>>, <<18>>), C443),
     from(r("call", "pfind", <<19>>, <<20>>), C443),
     from(r("loop", "pfind", <<21>>, <<22>>), C443),
     from(r("scan443", "pfind", <<23>>, <<24>>), C443) >>

\* a-1018/tx_b.py:187-287
tx_b_2 ==
  << from(r("gap500", "pfind", <<25>>, <<26>>), C443),
     from(r("free", "pfind", <<27>>, <<28>>), C443),
     r("igif", "pfind", <<29>>, <<30>>),
     r("lf-443", "lfs-find.1", <<31>>, <<32>>),
     r("fs-443", "find_since.3", <<33>>, <<34>>),
     r("fs-einval", "find_since.3", <<35>>, <<36>>),
     r("sf-eacces", "scan_fid.3", <<37>>, <<38>>),
     r("sc-mark", "scan_changelog.3", <<39>>, <<39, 40>>) >>

tx_b == tx_b_1 \o tx_b_2

\* a-1019/tx_1019.py:15-147
tx_1019_1 ==
  << r("1", "lustreapi_internal.h", <<1>>, <<2>>),
     r("2", "lustreapi_internal.h", <<3>>, <<4>>),
     r("6inc", "scan_changelog", <<5>>, <<6, 5>>),
     r("6fn", "scan_changelog", <<7>>, <<8, 7>>),
     r("6chk", "scan_changelog", <<9>>, <<10>>),
     r("6man", "scan_changelog.3", <<11>>, <<12>>),
     r("6err", "scan_changelog.3", <<13>>, <<13, 14>>),
     r("6tdecl", "scan_changelog_test", <<15>>, <<16>>),
     r("6tcase", "scan_changelog_test", <<17>>, <<17, 18>>),
     r("6tcount", "scan_changelog_test", <<19>>, <<20>>),
     r("7", "scan_fid.3", <<21>>, <<22>>) >>

\* a-1019/tx_1019.py:149-192
tx_1019_2 ==
  << r("8code", "scan", <<25>>, <<25, 26>>),
     r("8doc", "scan", <<27>>, <<28>>),
     r("8man", "scan_fid.3", <<23>>, <<23, 24>>) >>

tx_1019 == tx_1019_1 \o tx_1019_2

\* a-1019/tx_1019c.py:47-149
tx_1019c_1 ==
  << r("A5", "libscan_ldiskfs", <<1>>, <<2>>),
     from(r("A2-letters", "pfind", <<3>>, <<4>>), C159),
     from(r("A2-F", "pfind", <<5>>, <<6, 7>>), C159),
     from(r("A2-F288", "pfind", <<7>>, <<8>>), C288),
     from(r("A2-O", "pfind", <<9>>, <<10, 9>>), C159),
     from(r("A2-Ofile", "pfind", <<11>>, <<11, 12>>), C159),
     from(r("A2-Odir", "pfind", <<13>>, <<14, 13>>), C159) >>

\* a-1019/tx_1019c.py:151-278
tx_1019c_2 ==
  << from(r("A2-helpers", "pfind", <<15>>, <<16, 15>>), C159),
     from(r("A2-want", "pfind", <<17>>, <<18>>), C159),
     from(r("A2-want288", "pfind", <<18>>, <<18, 19>>), C288),
     from(r("A2-layout", "layout", <<20>>, <<20, 21>>), C159),
     from(r("A2-layout-inc", "layout", <<22>>, <<22, 23>>), C159),
     from(r("A2-valid", "liblustreapi", <<24>>, <<25>>), C159),
     from(r("A2-decl", "lustreapi_internal.h", <<26>>, <<26, 27>>), C159) >>

\* a-1019/tx_1019c.py:281-425
tx_1019c_3 ==
  << from(r("A2-56Ea", "sanity.sh", <<28>>, <<28, 29>>), C159),
     from(r("A2-find1", "lfs-find.1", <<30>>, <<30, 31>>), C159),
     r("A2-find1-160", "lfs-find.1", <<32>>, <<32, 33>>),
     r("A2-find1-288", "lfs-find.1", <<34>>, <<35>>),
     from(r("A2-fd3", "find_device.3", <<36>>, <<37, 38, 39>>), C159),
     from(r("A2-fd3-288", "find_device.3", <<38>>, <<40>>), C288),
     r("A3-tool-hdr", "scan_device_test", <<41, 42>>, <<41>>),
     r("A3-tool-list160", "scan_device_test", <<43>>, <<>>),
     r("A3-tool-list163", "scan_device_test", <<44>>, <<>>) >>

\* a-1019/tx_1019c.py:427-560
tx_1019c_4 ==
  << r("A3-tool-usage160", "scan_device_test", <<45>>, <<46>>),
     r("A3-tool-usage163", "scan_device_test", <<47>>, <<48>>),
     r("A3-tool-main1", "scan_device_test", <<49, 50>>, <<50>>),
     r("A3-tool-getopt160", "scan_device_test", <<51>>, <<52>>),
     r("A3-tool-getopt163", "scan_device_test", <<53>>, <<54>>),
     r("A3-tool-main2", "scan_device_test", <<55>>, <<>>),
     r("A3-tool-main3", "scan_device_test", <<56>>, <<>>),
     r("A3-mk163", "Makefile.am", <<57>>, <<58>>),
     below(r("A3-mk-pre", "Makefile.am", <<59>>, <<60>>), C160),
     below(r("A3-mk-pre2", "Makefile.am", <<61>>, <<>>), C160),
     below(r("A3-gi-pre", ".gitignore", <<62>>, <<>>), C160),
     r("A3-300a-locals", "conf-sanity.sh", <<63>>, <<64>>),
     r("A3-300a-striped", "conf-sanity.sh", <<65>>, <<65, 66>>),
     r("A3-300a-loclient", "conf-sanity.sh", <<67>>, <<67, 68>>),
     r("A3-300a-l160", "conf-sanity.sh", <<69>>, <<70>>),
     r("A3-300a-l163", "conf-sanity.sh", <<71>>, <<72>>) >>

\* a-1019/tx_1019c.py:619-648
tx_1019c_5 ==
  << r("A3-300b-loc160", "conf-sanity.sh", <<73>>, <<74, 75>>),
     r("A3-300b-loc163", "conf-sanity.sh", <<76>>, <<75>>) >>

tx_1019c == tx_1019c_1 \o tx_1019c_2 \o tx_1019c_3 \o tx_1019c_4 \o tx_1019c_5

\* a-1019/tx_1019d.py:48-191
tx_1019d_1 ==
  << r("L1-loop", "scan_changelog", <<1>>, <<2>>),
     r("L1-man", "scan_changelog.3", <<3>>, <<4>>),
     r("L1-t-hdr", "scan_changelog_test", <<5>>, <<6>>),
     r("L1-t-case", "scan_changelog_test", <<7>>, <<8, 7>>),
     r("L1-t-reg", "scan_changelog_test", <<9>>, <<10>>),
     r("L1-san", "sanity.sh", <<11>>, <<12>>),
     from(r("L4-filter", "pfind", <<13>>, <<14>>), C419) >>

\* a-1019/tx_1019d.py:193-330
tx_1019d_2 ==
  << from(r("L4-next", "pfind", <<15>>, <<16>>), C419),
     from(r("L4-return", "pfind", <<17>>, <<18>>), C419),
     r("B1-helper", "scan_device", <<19>>, <<19, 20>>),
     r("B1-call", "scan_device", <<21>>, <<22>>),
     r("B1-man", "scan_device.3", <<23>>, <<24>>),
     r("B2-eio156", "scan_device.3", <<25>>, <<26>>),
     r("B2-eio163", "scan_device.3", <<27>>, <<28>>),
     r("B2-enomem", "scan_device.3", <<29>>, <<30, 29>>),
     r("B3", "lustre_fid.h", <<31>>, <<32>>),
     r("C2", "find_device.3", <<33>>, <<34>>),
     r("D1", "lfs", <<39>>, <<40>>) >>

\* a-1019/tx_1019d.py:333-382
tx_1019d_3 ==
  << r("F1-find1", "lfs-find.1", <<43>>, <<44>>),
     r("F1-fd3", "find_device.3", <<35>>, <<36>>),
     r("F1-fd3-729", "find_device.3", <<37>>, <<38>>),
     from(r("F2", "lfs", <<41>>, <<41, 42>>), C288) >>

tx_1019d == tx_1019d_1 \o tx_1019d_2 \o tx_1019d_3

\* a-1019/tx_1019f.py:27-138
tx_1019f ==
  << r("R9", "scan", <<1>>, <<2>>),
     from(r("R11inc", "pfind", <<3>>, <<4>>), C419),
     from(r("R11inc2", "pfind", <<5>>, <<6>>), C419),
     from(r("R11fn", "pfind", <<7>>, <<8, 7>>), C419),
     from(r("R11chk", "pfind", <<9>>, <<9, 10>>), C419),
     from(r("R11man1", "lfs-find.1", <<11>>, <<11, 12>>), C419),
     from(r("R11man3", "find_since.3", <<13>>, <<14>>), C419) >>

\* a-1019/tx_1019g.py:26-144
tx_1019g ==
  << from(r("helper", "lfs", <<1>>, <<2, 1>>), C160),
     from(r("doc", "lfs", <<3>>, <<4>>), C160),
     from(r("decl", "lfs", <<5>>, <<6, 5>>), C160),
     from(r("pre", "lfs", <<7>>, <<8, 7>>), C160),
     from(r("loop", "lfs", <<9>>, <<10, 9>>), C160),
     from(r("man", "lfs-find.1", <<11>>, <<11, 12>>), C160),
     from(r("test", "conf-sanity.sh", <<13>>, <<14>>), C160) >>

\* a-1019/tx_1019h.py:27-107
tx_1019h ==
  << from(r("S5", "pfind", <<1>>, <<2>>), C419),
     below(from(r("S4-68419", "pfind", <<3>>, <<4>>), C419), C443),
     below(from(r("S4-69443", "pfind", <<3>>, <<6>>), C443), F_GAP),
     from(r("S4-69443", "pfind", <<5>>, <<6>>), F_GAP) >>

=============================================================================
