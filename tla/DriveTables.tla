---------------------------- MODULE DriveTables ----------------------------
(***************************************************************************)
(* The fix tables of the rounds that r3drive.py and its copies drive: the  *)
(* list T of r3fix.py (r3-0913), r0918fix.py, r0920fix.py, r0921fix.py,    *)
(* b1fix.py and b2fix.py, row for row.  A position is an index of ORDER    *)
(* for r3fix and the number of the c00..c63 names for the others.  The     *)
(* numbers of passages are each table's own.  move_since() of r3fix moves  *)
(* two blocks and is two rows here.                                        *)
(***************************************************************************)
EXTENDS SeriesEdit

\* r3-0913/r3fix.py:38-181
r3fix_1 ==
  << t("77aea866", "sanity.sh", <<1>>, <<2>>),
     t("77aea866-157d", "sanity.sh", <<3>>, <<4>>),
     only(count_all(t("6379d8eb", "conf-sanity.sh", <<9>>, <<>>)), {6}),
     t("4fe322a2", "msg", <<10>>, <<11>>),
     t("a3ac0b0d", "libscan_zfs", <<54>>, <<54, 55>>),
     t("2cdfde78-fn", "libscan_zfs", <<56>>, <<57>>),
     t("2cdfde78-cmt", "libscan_zfs", <<58>>, <<59>>),
     t("2cdfde78-mask", "libscan_zfs", <<60>>, <<61>>),
     t("2cdfde78-hdr", "lustreapi_scan_backend.h", <<62>>, <<63>>),
     t("2cdfde78-man", "scan_device.3", <<64>>, <<65>>),
     t("cb25d398-a", "msg", <<12>>, <<13>>),
     t("cb25d398-b", "msg", <<14>>, <<15>>),
     t("cb25d398-c", "msg", <<16>>, <<17>>),
     t("cb25d398-d", "msg", <<18>>, <<19>>),
     t("cb25d398-e", "msg", <<20>>, <<21>>),
     t("msg-backslash", "msg", <<22>>, <<23>>) >>

\* r3-0913/r3fix.py:182-326
r3fix_2 ==
  << t("ede43c98", "scan_rec_path.3", <<66>>, <<67>>),
     t("ae6a9326", "lustreapi.h", <<68>>, <<69>>),
     t("4e556ce9", "pfind", <<74>>, <<75>>),
     t("bfa7b47a", "lustreapi.h", <<70>>, <<71>>),
     t("b3c1e9ac", "scan_changelog_test", <<104>>, <<105>>),
     t("e156feaf", "scan_changelog_test", <<106>>, <<107>>),
     t("aa575ca1", "scan_changelog", <<108>>, <<109>>),
     t("aa575ca1-msg", "msg", <<24>>, <<25>>),
     f("617400ed", "move_comment", "scan_changelog", <<114>>, <<110>>,
               <<111>>),
     t("617400ed-wrap", "scan_changelog", <<112>>, <<113>>),
     t("adac49ea-a", "msg", <<26>>, <<27>>),
     t("adac49ea-b", "msg", <<28>>, <<29>>),
     t("afc96fd0-msg", "msg", <<30>>, <<31>>) >>

\* r3-0913/r3fix.py:327-462
r3fix_3 ==
  << t("afc96fd0-doc", "scan", <<115>>, <<116>>),
     t("afc96fd0-doc2", "scan", <<117>>, <<118>>),
     t("afc96fd0-man", "scan_fid.3", <<121>>, <<122>>),
     t("afc96fd0-man2", "scan_fid.3", <<123>>, <<124>>),
     since(t("00ea7018", "pfind", <<76>>, <<77>>), 10),
     only(t("00ea7018-lower", "pfind", <<76>>, <<78>>), 0..9),
     t("1f5eb08c-decl", "scan_test", <<125>>, <<126>>),
     t("1f5eb08c", "scan_test", <<127>>, <<128>>),
     f("a2ba1626", "move_block", "lfs-find.1", <<135>>, <<129>>, <<130>>),
     f("a2ba1626-opt", "move_block", "lfs-find.1", <<136>>, <<131>>, <<132>>),
     t("fff5372a-man", "find_since.3", <<137>>, <<138>>) >>

\* r3-0913/r3fix.py:463-582
r3fix_4 ==
  << t("fff5372a-dup", "find_since.3", <<139>>, <<>>),
     t("fff5372a-msg", "msg", <<32>>, <<33>>),
     t("fd5bc71b", "pfind", <<79>>, <<80>>),
     t("fd5bc71b-msg", "msg", <<34>>, <<35>>),
     t("37d1fed2", "pfind", <<81>>, <<82>>),
     t("080e9b9d", "lfs_find_parse", <<140>>, <<141>>),
     only(t("09cfc4b1-2a3e", "pfind", <<83>>, <<84>>), {12}),
     since(t("09cfc4b1", "pfind", <<83>>, <<85>>), 13),
     t("2d0b68e4", "msg", <<36>>, <<37>>),
     t("b3d55630", "lfs-find.1", <<133>>, <<134>>),
     t("3b37662f", "lustreapi.h", <<72>>, <<73>>),
     t("195af7cb", "pfind", <<86>>, <<87>>),
     t("195af7cb-msg", "msg", <<38>>, <<39>>),
     t("37d1fed2-msg", "msg", <<40>>, <<41>>) >>

\* r3-0913/r3fix.py:636-773
r3fix_5 ==
  << since(f("e31be789-fn", "insert_fn", "pfind", <<146>>, <<88>>, <<89>>),
      13),
     t("e31be789-write", "pfind", <<90>>, <<91>>),
     t("e31be789-probe", "pfind", <<92>>, <<93>>),
     t("e31be789-probedecl", "pfind", <<94>>, <<95>>),
     t("e31be789-probecmt", "pfind", <<96>>, <<97>>),
     t("09cfc4b1-2", "pfind", <<98>>, <<99>>),
     t("bd138920", "pfind", <<100>>, <<101, 100>>),
     t("240ce397-probe", "msg", <<42>>, <<43>>) >>

\* r3-0913/r3fix.py:774-890
r3fix_6 ==
  << t("240ce397-tail", "msg", <<44>>, <<45>>) >>

\* r3-0913/r3fix.py:893-1008
r3fix_7 ==
  << t("3d25f00b", "msg", <<46>>, <<47>>),
     t("6cf9bb05-msg", "msg", <<48>>, <<49>>),
     t("6cf9bb05-local", "sanity.sh", <<5>>, <<5, 6>>),
     since(t("6cf9bb05", "sanity.sh", <<7>>, <<7, 8>>), 14),
     t("fb139d1b", "msg", <<50>>, <<50, 51>>),
     since(t("0957ec61", "liblustreapi", <<142>>, <<143>>), 16),
     t("513bd9ed", "liblustreapi", <<144>>, <<145>>),
     t("513bd9ed-msg", "msg", <<52>>, <<53>>),
     since(t("836aa67b", "pfind", <<102>>, <<103>>), 16),
     since(t("8e5a951e", "scan", <<119>>, <<120>>), 16) >>

r3fix == r3fix_1 \o r3fix_2 \o r3fix_3 \o r3fix_4 \o r3fix_5 \o r3fix_6
    \o r3fix_7

\* r-0918/r0918fix.py:35-134
r0918fix_1 ==
  << t("ac853bff", "lustreapi.h", <<1>>, <<2>>),
     t("aea0225b", "scan_namespace.3", <<5>>, <<6>>),
     t("cb723540", "scan_namespace.3", <<7>>, <<8>>),
     t("7bf450ef", "sanity.sh", <<9>>, <<10>>),
     t("be5960c4-h1", "lustreapi_internal.h", <<11>>, <<12>>),
     t("be5960c4-h2", "lustreapi_internal.h", <<13>>, <<14>>),
     t("be5960c4-s1", "scan", <<15>>, <<16>>),
     t("be5960c4-s2", "scan", <<17>>, <<18>>),
     t("be5960c4-s3", "scan", <<19>>, <<20>>),
     t("be5960c4-s4", "scan", <<21>>, <<22>>),
     t("be5960c4-p1", "pfind", <<23>>, <<24>>),
     t("be5960c4-p2", "pfind", <<25>>, <<26>>),
     t("be5960c4-msg", "msg", <<27>>, <<28>>),
     t("cb09f4cc", "lustreapi.h", <<3>>, <<4>>) >>

\* r-0918/r0918fix.py:137-273
r0918fix_2 ==
  << t("5aeb39c8-fn", "scan_device", <<35>>, <<36>>),
     t("5aeb39c8-decl", "scan_device", <<37>>, <<38>>),
     t("5aeb39c8-body", "scan_device", <<39>>, <<40, 39>>),
     t("5aeb39c8-man", "scan_device.3", <<41>>, <<42>>),
     t("8be61d7b", "libscan_ldiskfs", <<43>>, <<44>>),
     t("8be61d7b-code", "libscan_ldiskfs", <<45>>, <<46>>),
     t("msg-56El", "msg", <<29>>, <<30>>),
     t("msg-released", "msg", <<31>>, <<31, 32>>),
     t("msg-bitmap", "msg", <<33>>, <<34>>) >>

r0918fix == r0918fix_1 \o r0918fix_2

\* r-0920/r0920fix.py:36-179
r0920fix_1 ==
  << t("orphan-enum", "lustreapi.h", <<1>>, <<2>>),
     t("orphan-classify", "scan_device", <<13>>, <<13, 14>>),
     t("orphan-man", "scan_device.3", <<23>>, <<24>>),
     t("noreg-blocks", "scan_device", <<15>>, <<16>>),
     t("so-name", "scan_device", <<17>>, <<18>>),
     t("skipped-man", "scan_device.3", <<25>>, <<26>>),
     t("attrs-man", "scan_device.3", <<27>>, <<28>>),
     t("field-ino", "lustreapi.h", <<3>>, <<4>>),
     t("field-class", "lustreapi.h", <<5>>, <<6>>),
     t("field-path", "lustreapi.h", <<7>>, <<8>>),
     t("field-lmv", "lustreapi.h", <<9>>, <<10>>),
     t("field-fromhere", "lustreapi.h", <<11>>, <<12>>) >>

\* r-0920/r0920fix.py:182-321
r0920fix_2 ==
  << t("narr-bound", "libscan_ldiskfs", <<29>>, <<30>>),
     t("narr-lostfound", "scan_device", <<19>>, <<20>>),
     t("narr-skipcount", "scan_device", <<21>>, <<22>>),
     t("narr-padding", "lustreapi_scan_backend.h", <<31>>, <<32>>),
     t("fid-root", "lustre_fid.h", <<33>>, <<34>>),
     since(t("printf-Li", "pfind", <<35>>, <<36>>), 1),
     t("projid-outer", "pfind", <<37>>, <<38>>),
     t("projid-inner", "pfind", <<39>>, <<40>>),
     t("narr-walkfid", "pfind", <<41>>, <<42>>),
     t("narr-errno", "pfind", <<43>>, <<44>>),
     t("narr-projid-walk", "pfind", <<45>>, <<46>>),
     t("narr-reachable-old", "pfind", <<47>>, <<48>>),
     t("narr-reachable-new", "pfind", <<49>>, <<48>>) >>

r0920fix == r0920fix_1 \o r0920fix_2

\* r-0921/r0921fix.py:41-179
r0921fix_1 ==
  << t("attrs-gate", "scan", <<1>>, <<2>>),
     t("attrs-man", "scan_namespace.3", <<3>>, <<4>>),
     since(t("foreign-helper", "pfind", <<5>>, <<6, 5>>), 1),
     only(t("foreign-early-95", "pfind", <<7>>, <<7, 8>>), 1..2),
     since(t("foreign-early-157", "pfind", <<7>>, <<7, 9>>), 3),
     since(t("foreign-label-157", "pfind", <<10>>, <<11, 10>>), 3),
     since(t("gitignore", ".gitignore", <<12>>, <<12, 13>>), 2),
     since(t("striped-size-want", "scan_device", <<14>>, <<15>>), 2),
     since(t("striped-size", "scan_device", <<16>>, <<16, 17>>), 2) >>

\* r-0921/r0921fix.py:181-258
r0921fix_2 ==
  << since(t("striped-helper", "scan_device", <<18>>, <<19, 18>>), 2),
     since(t("striped-man", "scan_device.3", <<26>>, <<26, 27>>), 2),
     since(t("ost-blocks-sig", "scan_device", <<20>>, <<21>>), 2),
     since(t("ost-blocks-call", "scan_device", <<22>>, <<23>>), 2),
     since(t("ost-blocks", "scan_device", <<24>>, <<25>>), 2),
     only(t("printf-i-msg", "msg", <<28>>, <<29, 28>>), {1}) >>

r0921fix == r0921fix_1 \o r0921fix_2

\* b1-0921/b1fix.py:36-69
b1fix ==
  << only(t("igif-msg", "msg", <<1>>, <<2, 1>>), {5}),
     only(t("join-msg", "msg", <<3>>, <<4>>), {4}),
     since(t("sweep-man", "lfs-find.1", <<5>>, <<5, 6>>), 6) >>

\* b2-0921/b2fix.py:45-135
b2fix ==
  << since(t("prepass-ran-field", "lustreapi_internal.h", <<1>>, <<1, 2>>), 8),
     since(t("prepass-ran-set", "scan_device", <<3>>, <<3, 4>>), 8),
     since(t("dirmap-state", "pfind", <<5>>, <<6>>), 8),
     since(t("dirmap-gate", "pfind", <<7>>, <<8>>), 8),
     since(t("prepass-ran-wire", "pfind", <<9>>, <<9, 10>>), 8),
     since(t("paths-fid2path-excl", "pfind", <<11>>, <<11, 12>>), 8),
     since(t("man-fid-sentence", "lfs-find.1", <<13>>, <<14>>), 8) >>

=============================================================================
