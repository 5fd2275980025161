---------------------------- MODULE ToolCatalogue ----------------------------
(***************************************************************************)
(* What the tools of the connected accounts (src/tools) ask of the         *)
(* services, through the methods of the clients (src/integrations).  A     *)
(* method and a tool are a sequence of steps; what a step does is in       *)
(* ToolCalls:                                                              *)
(*   pick    chooses the account named, or the only one, or raises         *)
(*   default chooses the only account, or raises                           *)
(*   read    a request that changes nothing and raises when it fails       *)
(*   look    one whose failure can be an empty result                      *)
(*   skip    one for every item found, which leaves out the items it fails *)
(*   gather  skip, in threads that are awaited, without blocking others    *)
(*   add     a change that is made again by each request                   *)
(*   set     one that is not                                               *)
(*   once    one the service refuses when it was made: the request names   *)
(*           the object that it makes or removes                           *)
(*   count   set, where a refusal is counted in the result                 *)
(*   slip    set, where the last refusals can go unreported (GraphBatch)   *)
(*   store   add, to the program's own stores, without blocking others     *)
(*   find    a read of the labels; make creates the label not found        *)
(*   known   returns when the label was not found                          *)
(*   any     returns when nothing was found                                *)
(*   lacks   raises, since what was read has no field of that name         *)
(*   may s   the steps s, as the arguments ask; each s, for every item     *)
(* Paging is one request; formatting, arguments that are refused, and      *)
(* tools that only list the connected accounts are left out.  Some methods *)
(* are used by no tool; Slack's and Discord's tools are given to no agent  *)
(* (tool_factory.py).                                                      *)
(***************************************************************************)
EXTENDS Sequences, TLC

Steps(s) == [i \in DOMAIN s |-> <<s[i]>>]
May(s) == <<<<"may", s>>>>
Each(s) == <<<<"each", s>>>>

\* Without an account where several are connected, a client raises.
Reads == Steps(<<"pick", "read">>)
Looks == Steps(<<"pick", "look">>)
Adds == Steps(<<"pick", "add">>)
Sets == Steps(<<"pick", "set">>)
Once == Steps(<<"pick", "once">>)
Searches == Steps(<<"pick", "read", "skip">>)

-----------------------------------------------------------------------------
(* Gmail: the client's methods, then the tools.                            *)

GmailMail == [
    send_email |-> Adds,
    get_emails_from_sender |-> Searches]

GmailBulk == [
    get_frequent_senders |-> Looks \o Steps(<<"gather">>),
    bulk_modify_messages |-> Steps(<<"pick", "count">>)]

GmailSearch == [search_emails |-> Searches, find_contact_email |-> Looks]

\* The file, then its document.
GmailStored == Steps(<<"store", "store">>)

GmailContent == [
    get_message_by_id |-> Reads,
    retrieve_and_store_attachment |-> Reads \o GmailStored,
    reply_to_message |-> Reads \o Steps(<<"add">>),
    modify_message_labels |-> Sets]

GmailMoves == [
    archive_message |-> GmailContent.modify_message_labels,
    mark_as_unread |-> GmailContent.modify_message_labels,
    add_star |-> GmailContent.modify_message_labels,
    remove_star |-> GmailContent.modify_message_labels,
    move_to_spam |-> GmailContent.modify_message_labels,
    move_to_trash |-> GmailContent.modify_message_labels]

GmailLabels == [
    create_draft |-> Adds,
    list_labels |-> Reads,
    create_label |-> Steps(<<"pick", "make">>)]

GmailLabelled == [
    create_filter |-> Adds,
    add_label_to_message |-> Steps(<<"pick", "find", "make", "set">>),
    remove_label_from_message |-> Steps(<<"pick", "find", "known", "set">>)]

\* An email is sent a second time, without naming the account.
GmailSending == [
    send_google_email |-> GmailMail.send_email \o Steps(<<"default", "add">>),
    reply_to_google_email |-> GmailContent.reply_to_message,
    search_google_email |-> GmailSearch.search_emails,
    get_google_email_content |-> GmailContent.get_message_by_id]

GmailFinding == [
    retrieve_google_email_attachment |->
        Steps(<<"read">>) \o GmailContent.retrieve_and_store_attachment
            \o May(Steps(<<"store">>)),
    get_google_emails_from_sender |-> GmailMail.get_emails_from_sender,
    find_google_contact_email |-> GmailSearch.find_contact_email,
    archive_google_email |-> GmailMoves.archive_message,
    mark_google_email_as_read |-> GmailContent.modify_message_labels]

GmailMarking == [
    mark_google_email_as_unread |-> GmailMoves.mark_as_unread,
    star_google_email |-> GmailMoves.add_star,
    unstar_google_email |-> GmailMoves.remove_star,
    move_google_email_to_spam |-> GmailMoves.move_to_spam,
    move_google_email_to_trash |-> GmailMoves.move_to_trash,
    create_google_email_draft |-> GmailLabels.create_draft,
    list_google_email_labels |-> GmailLabels.list_labels]

LabelFound == Steps(<<"pick", "find">>) \o GmailLabels.create_label

GmailLabelling == [
    add_label_to_google_email |-> GmailLabelled.add_label_to_message,
    remove_label_from_google_email |-> GmailLabelled.remove_label_from_message,
    get_frequent_google_senders |->
        May(GmailLabels.list_labels) \o GmailBulk.get_frequent_senders,
    create_google_email_rule |-> May(LabelFound) \o GmailLabelled.create_filter]

\* Both take the field id of the emails found, which have none.
BySender == GmailMail.get_emails_from_sender \o Steps(<<"any", "lacks">>)
                \o GmailBulk.bulk_modify_messages

GmailBySender == [
    move_google_emails_by_sender |->
        May(LabelFound) \o May(GmailLabels.list_labels) \o BySender,
    categorize_google_emails_by_sender |-> LabelFound \o BySender]

-----------------------------------------------------------------------------
(* Google Sheets.  Rows are inserted and deleted at an index: the same     *)
(* request deletes other rows the second time.                             *)

SheetsValues == [
    create_spreadsheet |-> Adds,
    get_spreadsheet |-> Reads,
    get_values |-> Reads,
    update_values |-> Sets,
    append_values |-> Adds]

SheetsRanges == [
    clear_values |-> Sets,
    batch_update_values |-> Sets,
    add_sheet |-> Adds,
    delete_sheet |-> Once]

SheetsRows == [
    insert_rows |-> Adds,
    insert_columns |-> Adds,
    delete_rows |-> Adds]

SheetsSearch == [
    get_cell_value |-> SheetsValues.get_values,
    set_cell_value |-> SheetsValues.update_values,
    search_in_spreadsheet |-> SheetsValues.get_spreadsheet \o Steps(<<"skip">>)]

SheetsReading == [
    create_google_sheet |-> SheetsValues.create_spreadsheet,
    get_sheet_values |-> SheetsValues.get_values,
    update_sheet_values |-> SheetsValues.update_values,
    append_sheet_rows |-> SheetsValues.append_values]

SheetsCells == [
    clear_sheet_range |-> SheetsRanges.clear_values,
    get_single_cell |-> SheetsSearch.get_cell_value,
    set_single_cell |-> SheetsSearch.set_cell_value,
    add_sheet_tab |-> SheetsRanges.add_sheet]

SheetsTabs == [
    delete_sheet_tab |-> SheetsRanges.delete_sheet,
    insert_sheet_rows |-> SheetsRows.insert_rows,
    insert_sheet_columns |-> SheetsRows.insert_columns,
    delete_sheet_rows |-> SheetsRows.delete_rows]

SheetsInfo == [
    get_spreadsheet_info |-> SheetsValues.get_spreadsheet,
    search_google_sheet |-> SheetsSearch.search_in_spreadsheet]

-----------------------------------------------------------------------------
(* Google Docs: text is inserted and deleted at an index, too.             *)

DocsText == [
    create_document |-> Adds,
    get_document |-> Reads,
    get_document_text |-> Reads,
    insert_text |-> Adds]

DocsAppend == [
    append_text |-> DocsText.get_document \o DocsText.insert_text,
    format_text |-> Sets,
    insert_paragraph |-> Adds]

DocsContent == [
    insert_table |-> Adds,
    delete_content_range |-> Adds]

DocsSearch == [
    replace_all_text |-> Adds,
    search_in_document |-> DocsText.get_document]

DocsTools == [
    create_google_doc |-> DocsText.create_document,
    get_google_doc_content |-> DocsText.get_document,
    insert_text_in_doc |-> DocsText.insert_text,
    append_text_to_doc |-> DocsAppend.append_text]

DocsFormatting == [
    format_doc_text |-> DocsAppend.format_text,
    insert_paragraph_in_doc |-> DocsAppend.insert_paragraph,
    insert_table_in_doc |-> DocsContent.insert_table,
    delete_doc_content |-> DocsContent.delete_content_range]

DocsReplacing == [
    replace_text_in_doc |-> DocsSearch.replace_all_text,
    search_google_doc |-> DocsSearch.search_in_document]

-----------------------------------------------------------------------------
(* Google Slides: boxes, images and tables are given an identifier made of *)
(* the slide and of what they show.                                        *)

SlidesPages == [
    create_presentation |-> Adds,
    get_presentation |-> Reads,
    create_slide |-> Reads \o Steps(<<"add">>),
    delete_slide |-> Once]

SlidesObjects == [insert_text |-> Once, insert_image |-> Once]

SlidesStyles == [
    update_text_style |-> Sets,
    create_table |-> Once]

SlidesSearch == [
    delete_object |-> Once,
    search_in_presentation |-> SlidesPages.get_presentation]

SlidesTools == [
    create_google_presentation |-> SlidesPages.create_presentation,
    get_presentation_info |-> SlidesPages.get_presentation,
    add_slide |-> SlidesPages.create_slide,
    delete_slide |-> SlidesPages.delete_slide]

SlidesInserting == [
    insert_text_in_slide |-> SlidesObjects.insert_text,
    insert_image_in_slide |-> SlidesObjects.insert_image,
    format_slide_text |-> SlidesStyles.update_text_style]

SlidesTables == [
    create_table_in_slide |-> SlidesStyles.create_table,
    delete_slide_object |-> SlidesSearch.delete_object,
    search_google_presentation |-> SlidesSearch.search_in_presentation]

-----------------------------------------------------------------------------
(* Google Drive and Calendar.                                              *)

DriveFiles == [
    save_file_to_drive |-> Reads \o Steps(<<"add">>),
    create_folder |-> Adds,
    copy_file |-> Adds,
    create_text_file |-> Adds,
    read_file_content_by_id |-> Reads \o Steps(<<"read">>),
    list_files |-> Reads]

DriveTools == [
    search_google_drive_files |-> DriveFiles.list_files,
    save_file_to_drive |-> DriveFiles.save_file_to_drive,
    create_text_file_in_drive |-> DriveFiles.create_text_file,
    create_gdrive_folder |-> DriveFiles.create_folder,
    read_file_content_by_id |-> DriveFiles.read_file_content_by_id]

DriveCopying == [
    list_drive_files |-> DriveFiles.list_files,
    google_drive_copy_file |-> DriveFiles.copy_file]

\* The time zone of the calendar is UTC when it cannot be read.
CalendarEvents == [
    get_calendar_events |-> Reads,
    create_calendar_event |-> Looks \o Steps(<<"add">>)]

CalendarTools == [
    get_calendar_events |-> CalendarEvents.get_calendar_events,
    create_calendar_event |-> CalendarEvents.create_calendar_event]

-----------------------------------------------------------------------------
(* Notion, Dropbox, Trello.                                                *)

NotionPages == [
    list_databases |-> Reads,
    get_all_workspace_entries |-> Reads,
    search_pages |-> Reads,
    query_database |-> Reads,
    create_database |-> Adds,
    create_page |-> Adds,
    append_block_children |-> Adds,
    update_page_properties |-> Sets,
    get_page_content |-> Reads]

NotionReading == [
    list_databases |-> NotionPages.list_databases,
    list_notion_pages |-> NotionPages.search_pages,
    query_notion_database |-> NotionPages.query_database,
    get_all_workspace_entries |-> NotionPages.get_all_workspace_entries]

NotionCreating == [
    search_notion_pages_by_keyword |-> NotionPages.search_pages,
    create_notion_page |-> NotionPages.create_page,
    create_notion_database_entry |-> NotionPages.create_page]

NotionChanging == [
    create_notion_database |-> NotionPages.create_database,
    append_to_notion_page |-> NotionPages.append_block_children,
    update_notion_page_properties |-> NotionPages.update_page_properties,
    get_notion_page_content |-> NotionPages.get_page_content]

\* A file that exists is overwritten.
DropboxFiles == [
    save_file |-> Sets,
    read_file |-> Reads,
    list_files |-> Looks,
    search_files |-> Looks]

DropboxTools == [
    save_file_to_dropbox |-> DropboxFiles.save_file,
    read_file_from_dropbox |-> DropboxFiles.read_file,
    list_dropbox_files |-> DropboxFiles.list_files,
    search_dropbox_files |-> DropboxFiles.search_files]

TrelloBoards == [
    list_organizations |-> Reads,
    list_boards |-> Reads,
    get_board |-> Reads,
    create_board |-> Adds,
    list_lists |-> Reads,
    create_list |-> Adds,
    list_cards |-> Reads,
    get_card |-> Reads,
    create_card |-> Adds,
    update_card |-> Sets,
    delete_card |-> Once,
    add_comment |-> Adds]

TrelloMembers == [
    search |-> Reads,
    get_board_labels |-> Reads,
    add_label_to_card |-> Sets,
    get_checklists |-> Reads,
    create_checklist |-> Adds,
    add_checklist_item |-> Adds,
    get_board_members |-> Reads,
    add_member_to_card |-> Sets,
    remove_member_from_card |-> Once,
    get_card_members |-> Reads,
    invite_member_to_board |-> Sets]

TrelloReading == [
    list_trello_organizations |-> TrelloBoards.list_organizations,
    list_trello_boards |-> TrelloBoards.list_boards,
    get_trello_board_details |-> TrelloBoards.get_board \o TrelloBoards.list_lists,
    list_trello_cards |-> TrelloBoards.list_cards]

TrelloCards == [
    get_trello_card |-> TrelloBoards.get_card \o TrelloMembers.get_checklists,
    create_trello_card |-> TrelloBoards.create_card,
    update_trello_card |-> TrelloBoards.update_card]

TrelloChanging == [
    move_trello_card |-> TrelloBoards.update_card,
    add_trello_comment |-> TrelloBoards.add_comment,
    search_trello |-> TrelloMembers.search,
    create_trello_checklist |->
        TrelloMembers.create_checklist \o May(Each(TrelloMembers.add_checklist_item))]

TrelloCreating == [
    create_trello_board |-> TrelloBoards.create_board,
    create_trello_list |-> TrelloBoards.create_list,
    get_board_members |-> TrelloMembers.get_board_members,
    assign_member_to_card |-> TrelloMembers.add_member_to_card]

TrelloSharing == [
    unassign_member_from_card |-> TrelloMembers.remove_member_from_card,
    get_card_members |-> TrelloMembers.get_card_members,
    share_trello_board |-> TrelloMembers.invite_member_to_board]

-----------------------------------------------------------------------------
(* HubSpot and Airtable have one account, whose token is read each time.   *)

TokenReads == Steps(<<"read", "read">>)
TokenAdds == Steps(<<"read", "add">>)
TokenSets == Steps(<<"read", "set">>)
TokenOnce == Steps(<<"read", "once">>)

HubSpotRecords == [
    search_contacts |-> TokenReads,
    create_contact |-> TokenAdds,
    search_companies |-> TokenReads,
    create_company |-> TokenAdds,
    create_deal |-> TokenAdds]

HubSpotNotes == [
    create_note |-> TokenAdds,
    create_task |-> TokenAdds,
    search_deals |-> TokenReads]

HubSpotListing == [
    get_notes |-> TokenReads \o May(Steps(<<"read">>)),
    get_tasks |-> TokenReads \o May(Steps(<<"read">>))]

HubSpotTools == [
    hubspot_search_contacts |-> HubSpotRecords.search_contacts,
    hubspot_create_contact |-> HubSpotRecords.create_contact,
    hubspot_search_companies |-> HubSpotRecords.search_companies,
    hubspot_create_company |-> HubSpotRecords.create_company]

HubSpotDeals == [
    hubspot_create_deal |-> HubSpotRecords.create_deal,
    hubspot_create_note |-> HubSpotNotes.create_note,
    hubspot_create_task |-> HubSpotNotes.create_task]

HubSpotReading == [
    hubspot_search_deals |-> HubSpotNotes.search_deals,
    hubspot_get_notes |-> HubSpotListing.get_notes,
    hubspot_get_tasks |-> HubSpotListing.get_tasks]

AirtableRecords == [
    get_bases |-> TokenReads,
    get_base_schema |-> TokenReads,
    search_records |-> TokenReads,
    create_record |-> TokenAdds,
    update_record |-> TokenSets,
    delete_record |-> TokenOnce]

AirtableReading == [
    airtable_list_bases |-> AirtableRecords.get_bases,
    airtable_get_base_schema |-> AirtableRecords.get_base_schema,
    airtable_search_records |-> AirtableRecords.search_records,
    airtable_create_record |-> AirtableRecords.create_record]

AirtableChanging == [
    airtable_update_record |-> AirtableRecords.update_record,
    airtable_delete_record |-> AirtableRecords.delete_record]

-----------------------------------------------------------------------------
(* Outlook has one account, too.                                           *)

OutlookMail == [send_email |-> Steps(<<"add">>), get_calendar_events |-> Steps(<<"look">>)]

OutlookFinding == [
    get_emails_from_sender |-> Steps(<<"look">>),
    find_contact_email |-> Steps(<<"look">>)]

OutlookFolders == [
    search_emails |-> Steps(<<"look">>),
    list_mail_folders |-> Steps(<<"look">>),
    create_mail_folder |-> Steps(<<"add">>),
    create_outlook_rule |-> Steps(<<"add">>)]

OutlookSenders == [get_frequent_senders |-> Steps(<<"look">>)]

OutlookContent == [get_message_with_attachments |-> Steps(<<"read", "skip">>)]

OutlookSending == [
    send_outlook_email |-> OutlookMail.send_email,
    fetch_outlook_calendar_events |-> OutlookMail.get_calendar_events,
    get_outlook_emails_from_sender |-> OutlookFinding.get_emails_from_sender,
    find_outlook_contact_email |-> OutlookFinding.find_contact_email,
    mark_outlook_email_read |-> Steps(<<"slip">>),
    categorize_outlook_email |-> Steps(<<"slip">>),
    move_outlook_email |-> Steps(<<"slip">>),
    search_outlook_emails |-> OutlookFolders.search_emails,
    get_outlook_email_content |-> OutlookContent.get_message_with_attachments]

OutlookRules == [
    list_outlook_folders |-> OutlookFolders.list_mail_folders,
    create_outlook_folder |-> OutlookFolders.create_mail_folder,
    create_outlook_rule |->
        May(OutlookFolders.list_mail_folders) \o OutlookFolders.create_outlook_rule,
    get_frequent_outlook_senders |->
        May(OutlookFolders.list_mail_folders) \o OutlookSenders.get_frequent_senders,
    bulk_categorize_outlook_emails |-> Steps(<<"count">>),
    bulk_move_outlook_emails |-> Steps(<<"count">>)]

OutlookBySender == [
    move_outlook_emails_by_sender |->
        May(OutlookFolders.list_mail_folders) \o May(OutlookFolders.list_mail_folders)
            \o OutlookFinding.get_emails_from_sender \o Steps(<<"any", "count">>),
    categorize_outlook_emails_by_sender |->
        May(OutlookFolders.list_mail_folders) \o OutlookFinding.get_emails_from_sender
            \o Steps(<<"any", "count">>)]

-----------------------------------------------------------------------------

\* The clients of Google and of Dropbox make their requests without awaiting.
BlockingTools ==
    GmailSending @@ GmailFinding @@ GmailMarking @@ GmailLabelling @@ GmailBySender
    @@ SheetsReading @@ SheetsCells @@ SheetsTabs @@ SheetsInfo
    @@ DocsTools @@ DocsFormatting @@ DocsReplacing
    @@ SlidesTools @@ SlidesInserting @@ SlidesTables
    @@ DriveTools @@ DriveCopying @@ CalendarTools @@ DropboxTools

AwaitingTools ==
    NotionReading @@ NotionCreating @@ NotionChanging
    @@ TrelloReading @@ TrelloCards @@ TrelloChanging @@ TrelloCreating @@ TrelloSharing
    @@ HubSpotTools @@ HubSpotDeals @@ HubSpotReading @@ AirtableReading @@ AirtableChanging
    @@ OutlookSending @@ OutlookRules @@ OutlookBySender

ToolPlans == BlockingTools @@ AwaitingTools
=============================================================================
