------------------------------ MODULE Protocol ------------------------------
(***************************************************************************)
(* The request numbers of data.h.                                          *)
(***************************************************************************)
EXTENDS Integers

MSG_NUM == 0
CMD_BYE_NUM == 10
CMD_LOGIN_NUM == 11
CMD_LIST_NUM == 20
CMD_TALK_NUM == 21
CMD_PRIVATE_NUM == 22
CMD_ERROR_UNKNOW_NUM == 90
CMD_ERROR_ALREADY_LOGGED_IN_NUM == 91
CMD_ERROR_USERNAME_ALREADY_TAKEN_NUM == 92
CMD_ERROR_MISSING_ARGUMENT_NUM == 93
CMD_ERROR_USER_DISCONNECTED_SWAP_TO_EVERYONE_NUM == 94
CMD_ERROR_USER_DISCONNECTED_NUM == 95
CMD_ERROR_SERVER_FULL_NUM == 96
CMD_ERROR_USER_NOT_LOOGED_IN_NUM == 97
CMD_ERROR_UNKNOW_ERROR_NUM == 32767

ReqNum == {MSG_NUM} \cup {10, 11} \cup 20..22 \cup 90..97 \cup {32767}
=============================================================================
