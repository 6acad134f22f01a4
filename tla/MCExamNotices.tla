------------------------------ MODULE MCExamNotices ------------------------------
EXTENDS ExamNotices
==================================================================================
